---- MODULE Spec2Model ----
(***************************************************************************)
(* Model of the selective data extraction pipeline of mariadb-extractor    *)
(* (cmd/data.go): the table filter, the dependency sort, and the resumable *)
(* extraction executor with its progress ledger and output artifact.       *)
(*                                                                         *)
(* Strings that the code inspects character by character (table names and  *)
(* wildcard patterns) are sequences of one-character strings.              *)
(***************************************************************************)
EXTENDS Integers, Sequences, FiniteSets, TLC

VARIABLES
    \* --- table filter (shouldIncludeTable / matchesPattern) ---
    dataIncludeTables,   \* --include-tables patterns
    dataExcludeTables,   \* --exclude-tables patterns
    tableName,           \* the table name read from information_schema
    included,            \* result of shouldIncludeTable (when filterPc = "filtered")
    matchPattern,        \* pattern of the matchesPattern call (when filterPc = "matched")
    matched,             \* result of the matchesPattern call
    filterPc,            \* "ready", "matched" or "filtered"
    \* --- planning (createExtractionPlan / sortByDependencies) ---
    dataNoForeignKeyCheck, \* --no-foreign-key-check
    allPlans,            \* the concatenated per-database plans, before ordering
    sortedPlans,         \* the plan list createExtractionPlan returns
    planPc,              \* "collected" or "ordered"
    \* --- executor (executeExtractionPlan) and its files ---
    plans,               \* the plan list handed to executeExtractionPlan
    tableRows,           \* the source: number of rows of each plan's table
    dataBatchSize,       \* --batch-size
    progressFile,        \* the ledger <dataOutput>.progress: [exists, content]
    outputFile,          \* the artifact output/<dataOutput>.sql: [exists, content]
    dataResume,          \* --resume of the current run ("" when not resuming)
    pc,                  \* position of the executor
    idx,                 \* loop index i (1-based) into plans
    completedTables,     \* the key set loaded at the start of the run
    successCount,
    failCount,
    cur,                 \* the loop's copy of plans[idx] (RowCount, SampleSize set)
    runs,                \* number of runs started
    faults,              \* number of I/O and query faults injected so far
    hist,                \* what has happened in the current run
    \* --- plan construction (runDataExtraction / createExtractionPlan) ---
    databases,           \* the databases getDatabasesForExtraction returned
    catalog,             \* per database: its filtered tables and foreign keys
    dataSampleTables,    \* --sample-tables specifications
    dataSamplePercent,   \* --sample-percent
    dataMaxRowsPerTable, \* --max-rows
    dbIdx,               \* position of createExtractionPlan's loop over databases
    buildLog,            \* per database: what its analysis did
    runReport,           \* what runDataExtraction reported at its end
    \* --- value serialisation (formatSQLValue) ---
    sqlValue,            \* the scanned column value: its Go type and content
    sqlLiteral,          \* the text formatSQLValue returned for it
    formatPc,            \* "ready" or "formatted"
    \* --- query service (RateLimiter, AuditLogger, ExecuteQuery, MCP server) ---
    mode,                \* "mcp": the MCP server; "query": one run of the query command
    rl,                  \* the RateLimiter: count and concurrent
    elapsed,             \* more than a second has passed since rl.lastReset
    auditOn,             \* the AuditLogger has a file (it is a no-op otherwise)
    requests,            \* per client: its request in progress
    answer,              \* the response last sent, with the audit events of its request
    issued,              \* number of requests received so far
    admittedInWindow,    \* requests admitted since the limiter's window began
    \* --- read-only gate (QueryValidator.Validate inside ExecuteQuery) ---
    execQuery,           \* the query text handed to ExecuteQuery
    execDatabase,        \* the database handed to ExecuteQuery ("" for none)
    execPc,              \* "called", "validated", "switched", "queried" or "returned"
    validateErr,         \* what Validate returned ("" for nil)
    dbCalls,             \* the statements sent to the database, in order
    \* --- progress ledger (saveExtractionProgress called on any ledger file) ---
    saveKey,             \* tableKey of the last call
    saveLoaded,          \* what loadExtractionProgress returned inside that call
    saveWritten,         \* os.WriteFile of that call succeeded
    saveCalls            \* number of calls made

filterVars == <<dataIncludeTables, dataExcludeTables, tableName, included,
                matchPattern, matched, filterPc>>

planVars == <<dataNoForeignKeyCheck, allPlans, sortedPlans, planPc>>

execVars == <<plans, tableRows, dataBatchSize, progressFile, outputFile, dataResume,
              pc, idx, completedTables, successCount, failCount, cur, runs, faults,
              hist>>

buildVars == <<databases, catalog, dataSampleTables, dataSamplePercent,
               dataMaxRowsPerTable, dbIdx, buildLog, runReport>>

formatVars == <<sqlValue, sqlLiteral, formatPc>>

queryVars == <<mode, rl, elapsed, auditOn, requests, answer, issued, admittedInWindow>>

gateVars == <<execQuery, execDatabase, execPc, validateErr, dbCalls>>

ledgerVars == <<saveKey, saveLoaded, saveWritten, saveCalls>>

vars == <<filterVars, planVars, execVars, buildVars, formatVars, queryVars, gateVars,
          ledgerVars>>

-----------------------------------------------------------------------------
(* Values the variables of one part hold while another part is checked.     *)

AbsentFile == [exists |-> FALSE, content |-> <<>>]

NoPlan == [DatabaseName |-> "", TableName |-> "", RowCount |-> 0,
           SampleSize |-> 0, Dependencies |-> <<>>]

NoHistory ==
    [startArtifact |-> <<>>, startLedger |-> <<>>, appendMode |-> FALSE,
     outcome |-> <<>>, countFault |-> {}, scanFault |-> <<>>, lostWrite |-> {},
     saved |-> {}, attempted |-> <<>>, returned |-> "none", recorded |-> {},
     marked |-> {}]

FilterIdle ==
    /\ dataIncludeTables = <<>>
    /\ dataExcludeTables = <<>>
    /\ tableName = <<>>
    /\ included = FALSE
    /\ matchPattern = <<>>
    /\ matched = FALSE
    /\ filterPc = "ready"

PlanIdle ==
    /\ dataNoForeignKeyCheck = FALSE
    /\ allPlans = <<>>
    /\ sortedPlans = <<>>
    /\ planPc = "collected"

ExecIdle ==
    /\ plans = <<>>
    /\ tableRows = <<>>
    /\ dataBatchSize = 1
    /\ progressFile = AbsentFile
    /\ outputFile = AbsentFile
    /\ dataResume = ""
    /\ pc = "idle"
    /\ idx = 1
    /\ completedTables = {}
    /\ successCount = 0
    /\ failCount = 0
    /\ cur = NoPlan
    /\ runs = 0
    /\ faults = 0
    /\ hist = NoHistory

BuildIdle ==
    /\ databases = <<>>
    /\ catalog = <<>>
    /\ dataSampleTables = <<>>
    /\ dataSamplePercent = 0
    /\ dataMaxRowsPerTable = 0
    /\ dbIdx = 1
    /\ buildLog = <<>>
    /\ runReport = "none"

FormatIdle ==
    /\ sqlValue = [kind |-> "nil", text |-> <<>>, int |-> 0, bool |-> FALSE]
    /\ sqlLiteral = <<>>
    /\ formatPc = "ready"

\* The callers of the query service: RunMCPServer answers one request line
\* before it reads the next, and runQuery makes a single call.
Clients == {"stdin"}

\* A client without a request.
NoRequest == [pc |-> "idle", query |-> <<>>, database |-> "", slots |-> 0]

NoAnswer ==
    [outcome |-> "none", events |-> <<>>, sawAdmitted |-> 0, sawInFlight |-> 0]

QueryIdle ==
    /\ mode = "off"
    /\ rl = [maxPerSecond |-> 0, maxConcurrent |-> 0, count |-> 0, concurrent |-> 0]
    /\ elapsed = FALSE
    /\ auditOn = FALSE
    /\ requests = [c \in Clients |-> NoRequest]
    /\ answer = NoAnswer
    /\ issued = 0
    /\ admittedInWindow = 0

GateIdle ==
    /\ execQuery = <<>>
    /\ execDatabase = ""
    /\ execPc = "idle"
    /\ validateErr = ""
    /\ dbCalls = <<>>

LedgerIdle ==
    /\ saveKey = ""
    /\ saveLoaded = {}
    /\ saveWritten = FALSE
    /\ saveCalls = 0

-----------------------------------------------------------------------------
(* Go's strings package, on sequences of characters.                       *)

HasPrefix(s, prefix) ==
    /\ Len(prefix) <= Len(s)
    /\ SubSeq(s, 1, Len(prefix)) = prefix

\* strings.Contains(s, substr)
Contains(s, substr) ==
    \E i \in 0..(Len(s) - Len(substr)) : SubSeq(s, i + 1, i + Len(substr)) = substr

\* strings.ReplaceAll(s, old, new) for a non-empty old: non-overlapping
\* occurrences are replaced from the left.
RECURSIVE ReplaceAll(_, _, _)
ReplaceAll(s, old, new) ==
    IF Len(s) < Len(old) THEN s
    ELSE IF HasPrefix(s, old)
         THEN new \o ReplaceAll(SubSeq(s, Len(old) + 1, Len(s)), old, new)
         ELSE <<Head(s)>> \o ReplaceAll(Tail(s), old, new)

-----------------------------------------------------------------------------
(* Pattern filter                                                          *)

\* The text that matchesPattern finally searches for.
PatternNeedle(pattern) ==
    LET p1 == ReplaceAll(pattern, <<"*">>, <<".", "*">>)
        p2 == <<"^">> \o p1 \o <<"$">>
    IN  ReplaceAll(ReplaceAll(p2, <<"^", ".", "*">>, <<>>), <<".", "*", "$">>, <<>>)

matchesPattern(text, pattern) ==
    Contains(text, PatternNeedle(pattern))

\* shouldIncludeTable with the include list consulted before the exclude list.
ShouldIncludeIncludeFirst(name) ==
    IF Len(dataIncludeTables) > 0
    THEN \E i \in 1..Len(dataIncludeTables) : matchesPattern(name, dataIncludeTables[i])
    ELSE ~ \E i \in 1..Len(dataExcludeTables) : matchesPattern(name, dataExcludeTables[i])

shouldIncludeTable(name) ==
    IF \E i \in 1..Len(dataExcludeTables) : matchesPattern(name, dataExcludeTables[i])
    THEN FALSE
    ELSE IF Len(dataIncludeTables) > 0
         THEN \E i \in 1..Len(dataIncludeTables) : matchesPattern(name, dataIncludeTables[i])
         ELSE TRUE

-----------------------------------------------------------------------------
(* Inputs of the filter                                                    *)

S_user_audit == <<"u","s","e","r","_","a","u","d","i","t">>
S_user_log   == <<"u","s","e","r","_","l","o","g">>
S_order_log  == <<"o","r","d","e","r","_","l","o","g">>
P_user_star  == <<"u","s","e","r","_","*">>
P_star_audit == <<"*","_","a","u","d","i","t">>

\* Table names offered to the filter.
TableNames ==
    { <<"a">>, <<"b">>, <<"a","b">>, <<"b","a">>, <<"a","a","b">>, <<"b","a","b">>,
      S_user_audit, S_user_log, S_order_log }

\* Patterns offered to matchesPattern.
Patterns ==
    { <<"a">>, <<"a","b">>, <<"*">>, <<"a","*">>, <<"*","b">>, <<"*","a","*">>,
      <<"a","*","b">>, <<"*","*">>, <<"*","a","*","b","*">>, P_user_star, P_star_audit }

\* Patterns offered in the include and exclude lists.
ListPatterns ==
    { <<"a","b">>, <<"a","*">>, <<"*","a","*">>, <<"*","b","*">>, P_user_star, P_star_audit }

MaxPatterns == 1

RECURSIVE SeqsUpTo(_, _)
SeqsUpTo(S, n) ==
    IF n = 0 THEN { <<>> }
    ELSE LET shorter == SeqsUpTo(S, n - 1)
         IN  shorter \cup { Append(q, x) : q \in shorter, x \in S }

PatternLists == SeqsUpTo(ListPatterns, MaxPatterns)

FilterInit ==
    /\ QueryIdle
    /\ LedgerIdle
    /\ FormatIdle
    /\ GateIdle
    /\ PlanIdle
    /\ ExecIdle
    /\ BuildIdle
    /\ dataIncludeTables \in PatternLists
    /\ dataExcludeTables \in PatternLists
    /\ tableName \in TableNames
    /\ included = FALSE
    /\ matchPattern = <<>>
    /\ matched = FALSE
    /\ filterPc = "ready"

\* One call of matchesPattern on the table name.
MatchesPatternCall ==
    /\ filterPc = "ready"
    /\ \E p \in Patterns :
          /\ matchPattern' = p
          /\ matched' = matchesPattern(tableName, p)
    /\ filterPc' = "matched"
    /\ UNCHANGED <<dataIncludeTables, dataExcludeTables, tableName, included>>
    /\ UNCHANGED <<planVars, execVars, buildVars, formatVars, queryVars, gateVars, ledgerVars>>

\* One call of shouldIncludeTable on the table name (getTablesForDatabase).
ShouldIncludeCall ==
    /\ filterPc = "ready"
    /\ included' = shouldIncludeTable(tableName)
    /\ filterPc' = "filtered"
    /\ UNCHANGED <<dataIncludeTables, dataExcludeTables, tableName, matchPattern, matched>>
    /\ UNCHANGED <<planVars, execVars, buildVars, formatVars, queryVars, gateVars, ledgerVars>>

FilterNext == MatchesPatternCall \/ ShouldIncludeCall

SpecFilter == FilterInit /\ [][FilterNext]_vars

-----------------------------------------------------------------------------
(* Claims about the filter                                                 *)

\* Anchored wildcard matching: "*" stands for zero or more characters and the
\* whole text has to be consumed.
RECURSIVE GlobMatch(_, _)
GlobMatch(text, pattern) ==
    IF pattern = <<>> THEN text = <<>>
    ELSE IF Head(pattern) = "*"
         THEN \/ GlobMatch(text, Tail(pattern))
              \/ (text # <<>> /\ GlobMatch(Tail(text), pattern))
         ELSE /\ text # <<>>
              /\ Head(text) = Head(pattern)
              /\ GlobMatch(Tail(text), Tail(pattern))

ExcludeHit == \E i \in 1..Len(dataExcludeTables) : matchesPattern(tableName, dataExcludeTables[i])
IncludeHit == \E i \in 1..Len(dataIncludeTables) : matchesPattern(tableName, dataIncludeTables[i])

\* C7: matchesPattern(name, pattern) is true exactly when the entire name
\* matches the pattern with "*" standing for any run of characters; with
\* include = ["user_*"] and exclude = ["*_audit"] only user_log of user_audit,
\* user_log and order_log is included.
C7_AnchoredMatching ==
    /\ filterPc = "matched" => (matched <=> GlobMatch(tableName, matchPattern))
    /\ ( /\ filterPc = "filtered"
         /\ dataIncludeTables = <<P_user_star>>
         /\ dataExcludeTables = <<P_star_audit>>
         /\ tableName \in {S_user_audit, S_user_log, S_order_log} )
       => (included <=> tableName = S_user_log)

\* C8: an exclude match excludes whatever the include list says; otherwise a
\* non-empty include list includes exactly the tables matching one of its
\* patterns; otherwise the table is included.
C8_FilterPrecedence ==
    filterPc = "filtered" =>
        /\ ExcludeHit => ~included
        /\ (~ExcludeHit /\ dataIncludeTables # <<>>) => (included <=> IncludeHit)
        /\ (~ExcludeHit /\ dataIncludeTables = <<>>) => included

\* A table matching both an include and an exclude pattern has been filtered out.
C8_Witness ==
    /\ filterPc = "filtered"
    /\ ExcludeHit
    /\ IncludeHit
    /\ ~included


-----------------------------------------------------------------------------
(* Dependency resolver.  A plan is a TableExtractionPlan record; the sort   *)
(* only compares table names for equality, so names are plain strings here. *)

Plan(db, table, sampleSize, deps) ==
    [DatabaseName |-> db, TableName |-> table, RowCount |-> 0,
     SampleSize |-> sampleSize, Dependencies |-> deps]

\* Index of the first plan of the list with this table name, 0 when none:
\* the "for _, plan := range plans { if plan.TableName == tableName" lookup.
FirstPlanIndex(ps, name) ==
    IF \E i \in 1..Len(ps) : ps[i].TableName = name
    THEN CHOOSE i \in 1..Len(ps) :
            /\ ps[i].TableName = name
            /\ \A j \in 1..(i - 1) : ps[j].TableName # name
    ELSE 0

RECURSIVE visit(_, _, _)
RECURSIVE visitEach(_, _, _)

\* A visit that appends the table before its dependencies.
visitPreOrder(ps, st, name) ==
    IF name \in st.visited THEN st
    ELSE LET st1 == [st EXCEPT !.visited = @ \cup {name}]
             found == FirstPlanIndex(ps, name)
         IN  IF found = 0 THEN st1
             ELSE visitEach(ps, [st1 EXCEPT !.sorted = Append(@, ps[found])],
                            ps[found].Dependencies)

\* A visit that gives up a table when one of its dependencies is already
\* marked, as a resolver that rejects instead of breaking cycles would.
visitDroppingBackEdges(ps, st, name) ==
    IF name \in st.visited THEN st
    ELSE LET st1 == [st EXCEPT !.visited = @ \cup {name}]
             found == FirstPlanIndex(ps, name)
         IN  IF found = 0 THEN st1
             ELSE LET st2 == visitEach(ps, st1, ps[found].Dependencies)
                      deps == ps[found].Dependencies
                  IN  IF \E k \in 1..Len(deps) : deps[k] \in st1.visited
                      THEN st2
                      ELSE [st2 EXCEPT !.sorted = Append(@, ps[found])]

\* The closure visit of sortByDependencies; st holds the visited map and the
\* sorted list it closes over.
visit(ps, st, name) ==
    IF name \in st.visited THEN st
    ELSE LET st1 == [st EXCEPT !.visited = @ \cup {name}]
             found == FirstPlanIndex(ps, name)
         IN  IF found = 0 THEN st1
             ELSE LET st2 == visitEach(ps, st1, ps[found].Dependencies)
                  IN  [st2 EXCEPT !.sorted = Append(@, ps[found])]

\* "for _, x := range names { visit(x) }"
visitEach(ps, st, names) ==
    IF names = <<>> THEN st
    ELSE visitEach(ps, visit(ps, st, Head(names)), Tail(names))

sortByDependencies(ps) ==
    visitEach(ps, [visited |-> {}, sorted |-> <<>>],
              [i \in 1..Len(ps) |-> ps[i].TableName]).sorted

-----------------------------------------------------------------------------
(* Inputs of the planner: the plan lists createExtractionPlan can build.    *)
(* Databases are taken in order and each database's tables arrive ordered   *)
(* by name, so a plan list is a sub-list of PlanKeys.                       *)

PlanKeys ==
    << <<"db1", "a">>, <<"db1", "b">>, <<"db1", "c">>,
       <<"db2", "a">>, <<"db2", "b">> >>

\* Referenced table names: the tables in scope and one that is filtered out.
RefNames == {"a", "b", "c", "z"}

MaxPlans == 3
MaxDeps == 1

\* Dependency lists of a table: referenced names other than its own
\* (createTableExtractionPlans drops self references), repeats allowed.
DepLists(table) == SeqsUpTo(RefNames \ {table}, MaxDeps)

\* The sub-list of PlanKeys picked by the index set K, with dependencies deps.
RECURSIVE PlanList(_, _, _)
PlanList(K, deps, from) ==
    IF from > Len(PlanKeys) THEN <<>>
    ELSE IF from \in K
         THEN <<Plan(PlanKeys[from][1], PlanKeys[from][2], 0, deps[from])>>
                 \o PlanList(K, deps, from + 1)
         ELSE PlanList(K, deps, from + 1)

PlanInit ==
    /\ QueryIdle
    /\ LedgerIdle
    /\ FormatIdle
    /\ GateIdle
    /\ FilterIdle
    /\ ExecIdle
    /\ BuildIdle
    /\ dataNoForeignKeyCheck \in BOOLEAN
    /\ \E K \in SUBSET (1..Len(PlanKeys)) :
          /\ Cardinality(K) <= MaxPlans
          /\ \E deps \in [K -> UNION { DepLists(t) : t \in RefNames }] :
                /\ \A k \in K : deps[k] \in DepLists(PlanKeys[k][2])
                /\ dataNoForeignKeyCheck => \A k \in K : deps[k] = <<>>
                /\ allPlans = PlanList(K, deps, 1)
    /\ sortedPlans = <<>>
    /\ planPc = "collected"

\* createExtractionPlan, lines 300-305: order the collected plans.
OrderPlans ==
    /\ planPc = "collected"
    /\ sortedPlans' = IF ~dataNoForeignKeyCheck
                      THEN sortByDependencies(allPlans)
                      ELSE allPlans
    /\ planPc' = "ordered"
    /\ UNCHANGED <<dataNoForeignKeyCheck, allPlans>>
    /\ UNCHANGED <<filterVars, execVars, buildVars, formatVars, queryVars, gateVars, ledgerVars>>

PlanNext == OrderPlans

SpecPlan == PlanInit /\ [][PlanNext]_vars

-----------------------------------------------------------------------------
(* Claims about the dependency resolver                                    *)

PlanNames(ps) == { ps[i].TableName : i \in 1..Len(ps) }

\* The dependency edges of a plan list: n -> d when a plan named n lists d.
DepEdges(ps) ==
    UNION { { <<ps[i].TableName, ps[i].Dependencies[k]>> :
                 k \in 1..Len(ps[i].Dependencies) } : i \in 1..Len(ps) }

Successors(E, S) == { e[2] : e \in { x \in E : x[1] \in S } }

RECURSIVE Closure(_, _)
Closure(E, S) ==
    LET next == S \cup Successors(E, S)
    IN  IF next = S THEN S ELSE Closure(E, next)

\* The names reachable from n in at least one step.
Descendants(E, n) == Closure(E, Successors(E, {n}))

Acyclic(ps) ==
    \A n \in PlanNames(ps) : n \notin Descendants(DepEdges(ps), n)

\* C1: with dependency checking enabled and an acyclic dependency graph, in
\* the returned list every dependency D of a plan T that has a plan at all has
\* its plan strictly before T, and none at or after T.
C1_TopologicalOrder ==
    (planPc = "ordered" /\ ~dataNoForeignKeyCheck /\ Acyclic(allPlans)) =>
        \A j \in 1..Len(sortedPlans) :
            \A k \in 1..Len(sortedPlans[j].Dependencies) :
                LET D == sortedPlans[j].Dependencies[k]
                IN  D \in PlanNames(allPlans) =>
                       /\ \E i \in 1..(j - 1) : sortedPlans[i].TableName = D
                       /\ \A i \in j..Len(sortedPlans) : sortedPlans[i].TableName # D

\* The sort has moved a dependency in front of a table that preceded it in
\* the collected list.
C1_Witness ==
    /\ planPc = "ordered"
    /\ ~dataNoForeignKeyCheck
    /\ Acyclic(allPlans)
    /\ Len(allPlans) >= 2
    /\ sortedPlans # allPlans
    /\ \E j \in 1..Len(sortedPlans) : \E i \in 1..(j - 1) :
          /\ sortedPlans[i].TableName \in
                { sortedPlans[j].Dependencies[k] : k \in 1..Len(sortedPlans[j].Dependencies) }
          /\ \E a \in 1..Len(allPlans) : \E b \in 1..(a - 1) :
                allPlans[a] = sortedPlans[i] /\ allPlans[b] = sortedPlans[j]

-----------------------------------------------------------------------------
(* Plan construction: createTableExtractionPlans and the loop of            *)
(* createExtractionPlan over the databases.  A --sample-tables              *)
(* specification is a sequence of characters.                               *)

\* The string a sequence of characters spells.
RECURSIVE Concat(_)
Concat(cs) == IF cs = <<>> THEN "" ELSE Head(cs) \o Concat(Tail(cs))

\* strings.Split(s, sep) for a one-character separator: the parts between
\* the separators, Len = number of separators + 1.
RECURSIVE SplitFrom(_, _, _)
SplitFrom(s, sep, part) ==
    IF s = <<>> THEN <<part>>
    ELSE IF Head(s) = sep
         THEN <<part>> \o SplitFrom(Tail(s), sep, <<>>)
         ELSE SplitFrom(Tail(s), sep, Append(part, Head(s)))

Split(s, sep) == SplitFrom(s, sep, <<>>)

Digits == <<"0", "1", "2", "3", "4", "5", "6", "7", "8", "9">>

DigitValue(c) == (CHOOSE i \in 1..10 : Digits[i] = c) - 1

RECURSIVE DigitsValue(_, _)
DigitsValue(ds, acc) ==
    IF ds = <<>> THEN acc
    ELSE DigitsValue(Tail(ds), acc * 10 + DigitValue(Head(ds)))

\* strconv.ParseInt(s, 10, 64): an optional sign and at least one decimal
\* digit; anything else is an error.
ParseInt(s) ==
    LET signed == s # <<>> /\ Head(s) \in {"+", "-"}
        ds == IF signed THEN Tail(s) ELSE s
    IN  IF ds = <<>> \/ \E i \in 1..Len(ds) : \A d \in 1..10 : Digits[d] # ds[i]
        THEN [ok |-> FALSE, value |-> 0]
        ELSE [ok |-> TRUE,
              value |-> IF signed /\ Head(s) = "-"
                        THEN 0 - DigitsValue(ds, 0)
                        ELSE DigitsValue(ds, 0)]

\* Lines 406-414: the map from table name to count; a later specification
\* of the same name overwrites an earlier one, a malformed one is ignored.
RECURSIVE ParseSampleTables(_, _)
ParseSampleTables(specs, sampleMap) ==
    IF specs = <<>> THEN sampleMap
    ELSE LET parts == Split(Head(specs), ":")
             count == ParseInt(parts[2])
             key == Concat(parts[1])
         IN  IF Len(parts) = 2 /\ count.ok
             THEN ParseSampleTables(Tail(specs),
                     [k \in DOMAIN sampleMap \cup {key} |->
                         IF k = key THEN count.value ELSE sampleMap[k]])
             ELSE ParseSampleTables(Tail(specs), sampleMap)

\* A choice that lets the global percentage win over the per-table count.
PlanSampleSizePercentFirst(sampleMap, name, percent, maxRows) ==
    IF percent > 0 THEN 0 - percent
    ELSE IF name \in DOMAIN sampleMap THEN sampleMap[name]
    ELSE IF maxRows > 0 THEN maxRows
    ELSE 0

\* Lines 422-430: the plan's SampleSize.
PlanSampleSize(sampleMap, name, percent, maxRows) ==
    IF name \in DOMAIN sampleMap THEN sampleMap[name]
    ELSE IF percent > 0 THEN 0 - percent
    ELSE IF maxRows > 0 THEN maxRows
    ELSE 0

\* Lines 432-440: the referenced tables of the table's foreign keys, in row
\* order, without references to itself.  foreignKeys is the list of rows of
\* getForeignKeyRelationships (empty for the nil map).
RECURSIVE PlanDependencies(_, _)
PlanDependencies(foreignKeys, name) ==
    IF foreignKeys = <<>> THEN <<>>
    ELSE LET fk == Head(foreignKeys)
         IN  (IF fk.TableName = name /\ fk.RefTableName # name
              THEN <<fk.RefTableName>> ELSE <<>>)
             \o PlanDependencies(Tail(foreignKeys), name)

createTableExtractionPlans(dbName, tables, foreignKeys) ==
    LET sampleMap == ParseSampleTables(dataSampleTables, <<>>)
    IN  [i \in 1..Len(tables) |->
            Plan(dbName, tables[i],
                 PlanSampleSize(sampleMap, tables[i], dataSamplePercent,
                                dataMaxRowsPerTable),
                 PlanDependencies(foreignKeys, tables[i]))]

-----------------------------------------------------------------------------
(* Inputs of plan construction                                              *)

Sp_a_2   == <<"a", ":", "2">>
Sp_a_0   == <<"a", ":", "0">>
Sp_b_neg == <<"b", ":", "-", "1">>
Sp_a_x   == <<"a", ":", "x">>
Sp_a     == <<"a">>
Sp_a_2_3 == <<"a", ":", "2", ":", "3">>

SampleSpecs == {Sp_a_2, Sp_a_0, Sp_b_neg, Sp_a_x, Sp_a, Sp_a_2_3}

MaxSpecs == 2

SamplePercents == {0, 10}
MaxRowsChoices == {0, 5}

ForeignKey(table, ref) == [TableName |-> table, RefTableName |-> ref]

Schema(tables, foreignKeys) == [tables |-> tables, foreignKeys |-> foreignKeys]

\* What information_schema holds for db1 and db2: the base tables that pass
\* the filter, ordered by name, and the foreign key rows ordered by table.
Db1Schemas ==
    { Schema(<<>>, <<>>),
      Schema(<<"a">>, <<>>),
      Schema(<<"a", "b">>, <<>>),
      Schema(<<"a", "b">>, <<ForeignKey("b", "a")>>),
      Schema(<<"a", "b">>, <<ForeignKey("a", "a"), ForeignKey("a", "b"),
                             ForeignKey("b", "a")>>) }

Db2Schemas == { Schema(<<>>, <<>>), Schema(<<"a">>, <<>>) }

DatabaseLists == { <<"db1">>, <<"db1", "db2">> }

BuildInit ==
    /\ QueryIdle
    /\ LedgerIdle
    /\ FormatIdle
    /\ GateIdle
    /\ FilterIdle
    /\ ExecIdle
    /\ databases \in DatabaseLists
    /\ catalog \in [{"db1", "db2"} -> Db1Schemas \cup Db2Schemas]
    /\ catalog["db1"] \in Db1Schemas
    /\ catalog["db2"] \in Db2Schemas
    /\ Len(databases) = 1 => catalog["db2"] = Schema(<<>>, <<>>)
    /\ dataNoForeignKeyCheck \in BOOLEAN
    /\ dataSampleTables \in SeqsUpTo(SampleSpecs, MaxSpecs)
    /\ dataSamplePercent \in SamplePercents
    /\ dataMaxRowsPerTable \in MaxRowsChoices
    /\ allPlans = <<>>
    /\ sortedPlans = <<>>
    /\ planPc = "analyzing"
    /\ dbIdx = 1
    /\ buildLog = [d \in 1..Len(databases) |-> "none"]
    /\ runReport = "none"

\* Lines 276-298, one iteration of the loop over the databases.
\* tablesOk = FALSE: getTablesForDatabase returns an error;
\* fkOk = FALSE: getForeignKeyRelationships returns an error (and a nil map).
AnalyzeDatabase ==
    /\ planPc = "analyzing"
    /\ dbIdx <= Len(databases)
    /\ \E tablesOk \in BOOLEAN, fkOk \in BOOLEAN :
          LET dbName == databases[dbIdx]
              foreignKeys == IF ~dataNoForeignKeyCheck /\ fkOk
                             THEN catalog[dbName].foreignKeys
                             ELSE <<>>
          IN  /\ ~fkOk => (tablesOk /\ ~dataNoForeignKeyCheck)
              /\ IF ~tablesOk
                 THEN /\ allPlans' = allPlans
                      /\ buildLog' = [buildLog EXCEPT ![dbIdx] = "tablesFailed"]
                 ELSE /\ allPlans' = allPlans \o
                            createTableExtractionPlans(dbName, catalog[dbName].tables,
                                                       foreignKeys)
                      /\ buildLog' = [buildLog EXCEPT
                                         ![dbIdx] = IF fkOk THEN "planned" ELSE "fkFailed"]
    /\ dbIdx' = dbIdx + 1
    /\ planPc' = IF dbIdx = Len(databases) THEN "collected" ELSE "analyzing"
    /\ UNCHANGED <<dataNoForeignKeyCheck, sortedPlans>>
    /\ UNCHANGED <<databases, catalog, dataSampleTables, dataSamplePercent,
                   dataMaxRowsPerTable, runReport>>
    /\ UNCHANGED <<filterVars, execVars, formatVars, queryVars, gateVars, ledgerVars>>

BuildNext ==
    \/ AnalyzeDatabase
    \/ OrderPlans

SpecBuild == BuildInit /\ [][BuildNext]_vars

-----------------------------------------------------------------------------
(* Claims about plan construction                                           *)

\* Position of the colon of a specification "name:count" with exactly one
\* colon, 0 otherwise.
ColonAt(sp) ==
    IF Cardinality({ k \in 1..Len(sp) : sp[k] = ":" }) = 1
    THEN CHOOSE k \in 1..Len(sp) : sp[k] = ":"
    ELSE 0

\* The sample-tables entries of a table: the specifications that name it
\* and carry an integer count.
EntryIndices(name) ==
    { i \in 1..Len(dataSampleTables) :
         LET sp == dataSampleTables[i]
             k == ColonAt(sp)
         IN  /\ k > 0
             /\ Concat(SubSeq(sp, 1, k - 1)) = name
             /\ ParseInt(SubSeq(sp, k + 1, Len(sp))).ok }

\* The count of the table's entry (of the last one when it has several).
EntryCount(name) ==
    LET i == CHOOSE e \in EntryIndices(name) : \A f \in EntryIndices(name) : f <= e
        sp == dataSampleTables[i]
    IN  ParseInt(SubSeq(sp, ColonAt(sp) + 1, Len(sp))).value

\* C11: every plan built carries the sample size of the highest-priority
\* directive that applies to its table: the count of its sample-tables entry,
\* else minus the global percentage when > 0, else the max-rows cap when > 0,
\* else 0.
C11_SamplePriority ==
    \A i \in 1..Len(allPlans) :
       LET name == allPlans[i].TableName
       IN  allPlans[i].SampleSize =
              IF EntryIndices(name) # {} THEN EntryCount(name)
              ELSE IF dataSamplePercent > 0 THEN 0 - dataSamplePercent
              ELSE IF dataMaxRowsPerTable > 0 THEN dataMaxRowsPerTable
              ELSE 0

\* A table with an entry keeps its count while percentage and cap are both
\* set, and a table without an entry gets the percentage, not the cap.
C11_Witness ==
    /\ planPc = "collected"
    /\ dataSamplePercent > 0
    /\ dataMaxRowsPerTable > 0
    /\ \E i \in 1..Len(allPlans), j \in 1..Len(allPlans) :
          /\ EntryIndices(allPlans[i].TableName) # {}
          /\ allPlans[i].SampleSize = 2
          /\ EntryIndices(allPlans[j].TableName) = {}
          /\ allPlans[j].SampleSize = 0 - dataSamplePercent

-----------------------------------------------------------------------------
(* Progress ledger                                                         *)

Min(a, b) == IF a <= b THEN a ELSE b

\* tableKey := fmt.Sprintf("%s.%s", plan.DatabaseName, plan.TableName)
TableKey(plan) == plan.DatabaseName \o "." \o plan.TableName

\* Every key a ledger can hold, in the byte order sort.Strings uses.
KeyOrder == << "db1.a", "db1.b", "db1.c", "db2.a", "db2.b", "db2.c", "x.y.z" >>

\* sort.Strings over a set of keys.
RECURSIVE SortStringsFrom(_, _)
SortStringsFrom(keys, from) ==
    IF from > Len(KeyOrder) THEN <<>>
    ELSE IF KeyOrder[from] \in keys
         THEN <<KeyOrder[from]>> \o SortStringsFrom(keys, from + 1)
         ELSE SortStringsFrom(keys, from + 1)

SortStrings(keys) == SortStringsFrom(keys, 1)

\* strings.TrimSpace of a ledger line: a line of white space becomes empty;
\* the keys hold no white space.
TrimLine(line) == IF line = " " THEN "" ELSE line

\* loadExtractionProgress: the non-blank lines of the ledger; the empty set
\* when the file is missing or cannot be read (readOk = FALSE).
loadExtractionProgress(file, readOk) ==
    IF file.exists /\ readOk
    THEN { TrimLine(file.content[n]) : n \in 1..Len(file.content) } \ {""}
    ELSE {}

\* A save that adds the key at the end of the file.
saveExtractionProgressAppending(file, tableKey, readOk, writeOk) ==
    IF writeOk
    THEN [exists |-> TRUE, content |-> Append(file.content, tableKey)]
    ELSE file

\* saveExtractionProgress: read, add the key, write the sorted set back.  The
\* error of os.WriteFile is dropped; a failed write leaves the file as it was.
saveExtractionProgress(file, tableKey, readOk, writeOk) ==
    LET completed == loadExtractionProgress(file, readOk) \cup {tableKey}
    IN  IF writeOk
        THEN [exists |-> TRUE, content |-> SortStrings(completed)]
        ELSE file

-----------------------------------------------------------------------------
(* Output artifact: a sequence of statements.                              *)

Stmt(kind, db, table, first, last) ==
    [kind |-> kind, db |-> db, table |-> table, first |-> first, last |-> last]

\* "-- MariaDB Data Extract", "-- Generated on", "-- Source" (lines 518-520)
HeaderStmt  == Stmt("header", "", "", 0, 0)
\* "SET FOREIGN_KEY_CHECKS=0;" (lines 523-524)
DisableStmt == Stmt("disable", "", "", 0, 0)
\* "SET FOREIGN_KEY_CHECKS=1;" (lines 594-595)
EnableStmt  == Stmt("enable", "", "", 0, 0)
\* "-- Table: db.table" and "USE `db`;" (lines 651-652)
UseStmt(plan) == Stmt("use", plan.DatabaseName, plan.TableName, 0, 0)
\* the blank line closing a table block (line 722)
BlankStmt   == Stmt("blank", "", "", 0, 0)
\* "INSERT INTO `table` VALUES (row first), ..., (row last);"
InsertStmt(table, first, last) == Stmt("insert", "", table, first, last)

-----------------------------------------------------------------------------
(* Sampling                                                                *)

\* A resolution that rounds the percentage up.
ResolveRoundingUp(sampleSize, rowCount) ==
    IF sampleSize < 0
    THEN (rowCount * (-sampleSize) + 99) \div 100
    ELSE sampleSize

\* Lines 554-558: a negative sample size is a percentage of the row count.
ResolveSampleSize(sampleSize, rowCount) ==
    IF sampleSize < 0
    THEN (rowCount * (-sampleSize)) \div 100
    ELSE sampleSize

\* Lines 657-660: the LIMIT of the scan, 0 when the query carries none.
ScanLimit(plan) ==
    IF plan.SampleSize > 0 /\ plan.SampleSize < plan.RowCount
    THEN plan.SampleSize
    ELSE 0

\* Rows the scan of a table with liveRows rows returns.
RowsReturned(plan, liveRows) ==
    IF ScanLimit(plan) > 0 THEN Min(ScanLimit(plan), liveRows) ELSE liveRows

-----------------------------------------------------------------------------
(* extractTableData                                                        *)

\* A batching that never flushes the rows left over at the end of the table.
InsertStatementsFullOnly(table, m, B, flushRest) ==
    [j \in 1..(m \div B) |-> InsertStmt(table, (j - 1) * B + 1, j * B)]

\* The insert statements written for the first m scanned rows with batch
\* size B: one per full batch and, when the loop ended normally (flushRest),
\* one for the remainder.
InsertStatements(table, m, B, flushRest) ==
    LET full == m \div B
    IN  [j \in 1..full |-> InsertStmt(table, (j - 1) * B + 1, j * B)]
        \o (IF flushRest /\ m % B > 0
            THEN <<InsertStmt(table, full * B + 1, m)>>
            ELSE <<>>)

\* The statements that reach the file when the write of statement number
\* lost fails (0: every write succeeds).  fmt.Fprintf's error is not looked at.
Written(stmts, lost) ==
    [j \in 1..(Len(stmts) - (IF lost \in 1..Len(stmts) THEN 1 ELSE 0)) |->
        IF lost \in 1..Len(stmts) /\ j >= lost THEN stmts[j + 1] ELSE stmts[j]]

\* An outcome of one extraction: what the query and the row stream do.
\*   kind "ok":     every returned row is scanned
\*   kind "query":  db.Query (or rows.Columns) returns an error
\*   kind "scan":   rows.Scan fails on row number at
\*   kind "stream": rows.Next ends the stream with an error instead of
\*                  delivering row number at (a deadline expiring mid-scan)
\*   lost:          the insert statement whose write fails, 0 for none
Outcome(kind, at, lost) == [kind |-> kind, at |-> at, lost |-> lost]

\* Rows the loop of lines 687-714 gets through, of n returned rows.
Processed(o, n) ==
    CASE o.kind = "ok" -> n
      [] o.kind = "query" -> 0
      [] OTHER -> o.at - 1

\* The insert statements the extraction issues: the remainder is flushed
\* unless the function returned from inside the loop.
IssuedStatements(plan, liveRows, B, o) ==
    InsertStatements(plan.TableName, Processed(o, RowsReturned(plan, liveRows)), B,
                     o.kind \in {"ok", "stream"})

\* extractTableData(db, file, plan): the new file content and whether an
\* error is returned.
extractTableData(content, plan, liveRows, B, o) ==
    LET head == Append(content, UseStmt(plan))
        body == head \o Written(IssuedStatements(plan, liveRows, B, o), o.lost)
    IN  CASE o.kind = "query" -> [content |-> head, err |-> TRUE]
          [] o.kind = "scan" -> [content |-> body, err |-> TRUE]
          [] OTHER -> [content |-> Append(body, BlankStmt), err |-> FALSE]

-----------------------------------------------------------------------------
(* executeExtractionPlan                                                   *)

MaxRuns == 3       \* runs of the command in one behaviour
MaxFaults == 1     \* faults injected in one behaviour
MaxFaultAt == 2    \* the latest row or statement a fault strikes

ResumeIds == {"", "run1", "run2"}
SampleSizes == {0, 2, -10}
TableSizes == {3, 200}
BatchSizes == {2}

\* Plan lists handed to the executor: table a with each sampling directive,
\* then table b, unsampled, which references a.
ExecPlanLists ==
    { << Plan("db1", "a", sa, <<>>), Plan("db1", "b", 0, <<"a">>) >> :
         sa \in SampleSizes }

\* Live row counts of the two tables.
ExecTableRows == { <<n, 3>> : n \in TableSizes }

Cost(fault) == IF fault THEN 1 ELSE 0

ExecInit ==
    /\ QueryIdle
    /\ LedgerIdle
    /\ FormatIdle
    /\ GateIdle
    /\ FilterIdle
    /\ PlanIdle
    /\ BuildIdle
    /\ plans \in ExecPlanLists
    /\ tableRows \in ExecTableRows
    /\ dataBatchSize \in BatchSizes
    /\ progressFile = AbsentFile
    /\ outputFile = AbsentFile
    /\ dataResume = ""
    /\ pc = "idle"
    /\ idx = 1
    /\ completedTables = {}
    /\ successCount = 0
    /\ failCount = 0
    /\ cur = NoPlan
    /\ runs = 0
    /\ faults = 0
    /\ hist = NoHistory

\* An open that always starts a new artifact.
OpenArtifactTruncating(file, resume, completed) ==
    [exists |-> TRUE, content |-> <<HeaderStmt, DisableStmt>>]

\* Lines 499-525: append to the artifact when resuming with a non-empty
\* ledger (creating it empty when it cannot be opened), else create it anew
\* and write the header and the disable statement.
OpenArtifact(file, resume, completed) ==
    IF resume # "" /\ completed # {}
    THEN IF file.exists THEN file ELSE [exists |-> TRUE, content |-> <<>>]
    ELSE [exists |-> TRUE, content |-> <<HeaderStmt, DisableStmt>>]

\* Lines 483-531.  startOk = FALSE: os.MkdirAll or os.Create fails and the
\* function returns the error.
StartRun ==
    /\ pc \in {"idle", "done", "error", "killed"}
    /\ runs < MaxRuns
    /\ \E resume \in ResumeIds, readOk \in BOOLEAN, startOk \in BOOLEAN :
          LET completed == IF resume # ""
                           THEN loadExtractionProgress(progressFile, readOk)
                           ELSE {}
          IN  /\ ~readOk => (resume # "" /\ progressFile.exists /\ startOk)
              /\ faults + Cost(~readOk) + Cost(~startOk) <= MaxFaults
              /\ faults' = faults + Cost(~readOk) + Cost(~startOk)
              /\ runs' = runs + 1
              /\ dataResume' = resume
              /\ idx' = 1
              /\ cur' = NoPlan
              /\ failCount' = 0
              /\ hist' = [NoHistory EXCEPT
                            !.startArtifact = outputFile.content,
                            !.startLedger = progressFile.content,
                            !.appendMode = (startOk /\ resume # "" /\ completed # {}),
                            !.outcome = [k \in 1..Len(plans) |-> "none"],
                            !.scanFault = [k \in 1..Len(plans) |-> "none"],
                            !.returned = IF startOk THEN "none" ELSE "error",
                            !.recorded = hist.recorded,
                            !.marked = hist.marked]
              /\ IF startOk
                 THEN /\ completedTables' = completed
                      /\ successCount' = Cardinality(completed)
                      /\ outputFile' = OpenArtifact(outputFile, resume, completed)
                      /\ pc' = "loop"
                 ELSE /\ completedTables' = {}
                      /\ successCount' = 0
                      /\ outputFile' = outputFile
                      /\ pc' = "error"
    /\ UNCHANGED <<plans, tableRows, dataBatchSize, progressFile>>
    /\ UNCHANGED <<filterVars, planVars, buildVars, formatVars, queryVars, gateVars, ledgerVars>>

\* A lookup that never finds a table in the ledger.
NeverCompleted(completed, plan) == FALSE

\* Line 538: completedTables[tableKey]
AlreadyCompleted(completed, plan) == TableKey(plan) \in completed

\* A skip that counts the table as a success of this run.
SkipTableCounted ==
    /\ pc = "loop"
    /\ idx <= Len(plans)
    /\ AlreadyCompleted(completedTables, plans[idx])
    /\ idx' = idx + 1
    /\ successCount' = successCount + 1
    /\ hist' = [hist EXCEPT !.outcome[idx] = "skipped"]
    /\ UNCHANGED <<plans, tableRows, dataBatchSize, progressFile, outputFile, dataResume,
                   pc, completedTables, failCount, cur, runs, faults>>
    /\ UNCHANGED <<filterVars, planVars, buildVars, formatVars, queryVars, gateVars, ledgerVars>>

\* Lines 537-541: the table is in the loaded ledger.
SkipTable ==
    /\ pc = "loop"
    /\ idx <= Len(plans)
    /\ AlreadyCompleted(completedTables, plans[idx])
    /\ idx' = idx + 1
    /\ hist' = [hist EXCEPT !.outcome[idx] = "skipped"]
    /\ UNCHANGED <<plans, tableRows, dataBatchSize, progressFile, outputFile, dataResume,
                   pc, completedTables, successCount, failCount, cur, runs, faults>>
    /\ UNCHANGED <<filterVars, planVars, buildVars, formatVars, queryVars, gateVars, ledgerVars>>

\* Lines 546-558 on the loop's copy of the plan.
CountedPlan(plan, rowCount) ==
    [plan EXCEPT !.RowCount = rowCount,
                 !.SampleSize = ResolveSampleSize(plan.SampleSize, rowCount)]

\* Lines 543-567: fetch the live row count (0 when the query fails) and
\* resolve a percentage sample size.
CountRows ==
    /\ pc = "loop"
    /\ idx <= Len(plans)
    /\ ~AlreadyCompleted(completedTables, plans[idx])
    /\ \E countOk \in BOOLEAN :
          /\ faults + Cost(~countOk) <= MaxFaults
          /\ faults' = faults + Cost(~countOk)
          /\ cur' = CountedPlan(plans[idx], IF countOk THEN tableRows[idx] ELSE 0)
          /\ hist' = [hist EXCEPT
                        !.countFault = IF countOk THEN @ ELSE @ \cup {idx},
                        !.attempted = Append(@, idx)]
    /\ pc' = "counted"
    /\ UNCHANGED <<plans, tableRows, dataBatchSize, progressFile, outputFile, dataResume,
                   idx, completedTables, successCount, failCount, runs>>
    /\ UNCHANGED <<filterVars, planVars, buildVars, formatVars, queryVars, gateVars, ledgerVars>>

\* The outcomes an extraction of n returned rows can have.
Outcomes(n) ==
    { Outcome(kind, at, lost) :
         kind \in {"ok", "query", "scan", "stream"}, at \in 0..MaxFaultAt, lost \in 0..MaxFaultAt }

\* A loop that gives up at the first failed table.
AbortAfterFailure(i) == [pc |-> "error", idx |-> i, returned |-> "error"]

\* Lines 570-575: count the failure and continue with the next table.
ContinueAfterFailure(i) == [pc |-> "loop", idx |-> i + 1, returned |-> "none"]

\* Line 570: extractTableData on the open file, and lines 571-575 when it
\* returns an error.
ExtractData ==
    /\ pc = "counted"
    /\ \E o \in Outcomes(RowsReturned(cur, tableRows[idx])) :
          LET n == RowsReturned(cur, tableRows[idx])
              r == extractTableData(outputFile.content, cur, tableRows[idx], dataBatchSize, o)
              go == ContinueAfterFailure(idx)
          IN  /\ o.kind \in {"ok", "query"} <=> o.at = 0
              /\ o.at <= n
              /\ o.lost <= Len(IssuedStatements(cur, tableRows[idx], dataBatchSize, o))
              /\ faults + Cost(o.kind # "ok") + Cost(o.lost # 0) <= MaxFaults
              /\ faults' = faults + Cost(o.kind # "ok") + Cost(o.lost # 0)
              /\ outputFile' = [exists |-> TRUE, content |-> r.content]
              /\ IF r.err
                 THEN /\ failCount' = failCount + 1
                      /\ pc' = go.pc
                      /\ idx' = go.idx
                      /\ hist' = [hist EXCEPT !.outcome[idx] = "failed",
                                              !.scanFault[idx] = o.kind,
                                              !.lostWrite = IF o.lost # 0 THEN @ \cup {idx} ELSE @,
                                              !.returned = go.returned]
                 ELSE /\ failCount' = failCount
                      /\ pc' = "extracted"
                      /\ idx' = idx
                      /\ hist' = [hist EXCEPT !.scanFault[idx] = o.kind,
                                              !.lostWrite = IF o.lost # 0 THEN @ \cup {idx} ELSE @]
    /\ UNCHANGED <<plans, tableRows, dataBatchSize, progressFile, dataResume,
                   completedTables, successCount, cur, runs>>
    /\ UNCHANGED <<filterVars, planVars, buildVars, formatVars, queryVars, gateVars, ledgerVars>>

\* Lines 577-590: count the success and record the key in the ledger.
MarkCompleted ==
    /\ pc = "extracted"
    /\ \E readOk \in BOOLEAN, writeOk \in BOOLEAN :
          /\ ~readOk => progressFile.exists
          /\ faults + Cost(~readOk) + Cost(~writeOk) <= MaxFaults
          /\ faults' = faults + Cost(~readOk) + Cost(~writeOk)
          /\ progressFile' = saveExtractionProgress(progressFile, TableKey(cur), readOk, writeOk)
          /\ hist' = [hist EXCEPT
                        !.outcome[idx] = "ok",
                        !.saved = @ \cup {TableKey(cur)},
                        !.recorded = IF writeOk
                                     THEN @ \cup {<<dataResume, TableKey(cur)>>}
                                     ELSE @,
                        !.marked = @ \cup {idx}]
    /\ successCount' = successCount + 1
    /\ idx' = idx + 1
    /\ pc' = "loop"
    /\ UNCHANGED <<plans, tableRows, dataBatchSize, outputFile, dataResume,
                   completedTables, failCount, cur, runs>>
    /\ UNCHANGED <<filterVars, planVars, buildVars, formatVars, queryVars, gateVars, ledgerVars>>

\* Lines 593-604: the closing enable statement, the summary, return nil.
FinishRun ==
    /\ pc = "loop"
    /\ idx > Len(plans)
    /\ outputFile' = [outputFile EXCEPT !.content = Append(@, EnableStmt)]
    /\ hist' = [hist EXCEPT !.returned = "nil"]
    /\ pc' = "done"
    /\ UNCHANGED <<plans, tableRows, dataBatchSize, progressFile, dataResume, idx,
                   completedTables, successCount, failCount, cur, runs, faults>>
    /\ UNCHANGED <<filterVars, planVars, buildVars, formatVars, queryVars, gateVars, ledgerVars>>

Next ==
    \/ StartRun
    \/ SkipTable
    \/ CountRows
    \/ ExtractData
    \/ MarkCompleted
    \/ FinishRun

Spec == ExecInit /\ [][Next]_vars

\* --- the executor over tables whose quoted names hold a dot ---

\* Database x with table y.z, and database x.y with table z.
DottedPlans == << Plan("x", "y.z", 0, <<>>), Plan("x.y", "z", 0, <<>>) >>

KeysInit ==
    /\ QueryIdle
    /\ LedgerIdle
    /\ FormatIdle
    /\ GateIdle
    /\ FilterIdle
    /\ PlanIdle
    /\ BuildIdle
    /\ plans = DottedPlans
    /\ tableRows \in { <<n, n>> : n \in 1..3 }
    /\ dataBatchSize \in BatchSizes
    /\ progressFile = AbsentFile
    /\ outputFile = AbsentFile
    /\ dataResume = ""
    /\ pc = "idle"
    /\ idx = 1
    /\ completedTables = {}
    /\ successCount = 0
    /\ failCount = 0
    /\ cur = NoPlan
    /\ runs = 0
    /\ faults = 0
    /\ hist = NoHistory

SpecKeys == KeysInit /\ [][Next]_vars

\* --- the executor over a ledger left by runs of another scope ---

\* Ledgers of earlier runs on the same output prefix whose plan also held
\* table db1.c.
EarlierLedgers ==
    { [exists |-> TRUE, content |-> SortStrings(keys)] :
         keys \in (SUBSET {"db1.a", "db1.b", "db1.c"}) \ {{}} }

SummaryInit ==
    /\ QueryIdle
    /\ LedgerIdle
    /\ FormatIdle
    /\ GateIdle
    /\ FilterIdle
    /\ PlanIdle
    /\ BuildIdle
    /\ plans = << Plan("db1", "a", 0, <<>>), Plan("db1", "b", 0, <<"a">>) >>
    /\ tableRows = <<3, 3>>
    /\ dataBatchSize \in BatchSizes
    /\ progressFile \in EarlierLedgers \cup {AbsentFile}
    /\ outputFile = AbsentFile
    /\ dataResume = ""
    /\ pc = "idle"
    /\ idx = 1
    /\ completedTables = {}
    /\ successCount = 0
    /\ failCount = 0
    /\ cur = NoPlan
    /\ runs = 0
    /\ faults = 0
    /\ hist = NoHistory

SpecSummary == SummaryInit /\ [][Next]_vars

\* --- the executor when the process can be killed ---
\* The fault budget starts spent: the behaviours of SpecCrash are those in
\* which runs are killed and no I/O or query fault occurs.

\* The lists xs can be cut down to by a write that does not finish.
ProperPrefixes(xs) == { SubSeq(xs, 1, n) : n \in 0..(Len(xs) - 1) }

CrashInit ==
    /\ QueryIdle
    /\ LedgerIdle
    /\ FormatIdle
    /\ GateIdle
    /\ FilterIdle
    /\ PlanIdle
    /\ BuildIdle
    /\ plans = << Plan("db1", "a", 0, <<>>), Plan("db1", "b", 0, <<"a">>) >>
    /\ tableRows = <<3, 3>>
    /\ dataBatchSize \in BatchSizes
    /\ progressFile = AbsentFile
    /\ outputFile = AbsentFile
    /\ dataResume = ""
    /\ pc = "idle"
    /\ idx = 1
    /\ completedTables = {}
    /\ successCount = 0
    /\ failCount = 0
    /\ cur = NoPlan
    /\ runs = 0
    /\ faults = MaxFaults
    /\ hist = NoHistory

\* The process is killed between two steps of the loop of lines 534-591.
KillRun ==
    /\ pc \in {"loop", "counted", "extracted"}
    /\ pc' = "killed"
    /\ hist' = [hist EXCEPT !.returned = "killed"]
    /\ UNCHANGED <<plans, tableRows, dataBatchSize, progressFile, outputFile, dataResume,
                   idx, completedTables, successCount, failCount, cur, runs, faults>>
    /\ UNCHANGED <<filterVars, planVars, buildVars, formatVars, queryVars, gateVars, ledgerVars>>

\* The process is killed inside extractTableData (line 570): the USE
\* statement and some of the insert statements have reached the artifact.
KillInExtract ==
    /\ pc = "counted"
    /\ \E block \in ProperPrefixes(
             <<UseStmt(cur)>>
             \o IssuedStatements(cur, tableRows[idx], dataBatchSize, Outcome("ok", 0, 0))) :
          /\ block # <<>>
          /\ outputFile' = [exists |-> TRUE, content |-> outputFile.content \o block]
    /\ pc' = "killed"
    /\ hist' = [hist EXCEPT !.returned = "killed"]
    /\ UNCHANGED <<plans, tableRows, dataBatchSize, progressFile, dataResume,
                   idx, completedTables, successCount, failCount, cur, runs, faults>>
    /\ UNCHANGED <<filterVars, planVars, buildVars, formatVars, queryVars, gateVars, ledgerVars>>

\* The process is killed inside saveExtractionProgress (line 579), after
\* os.WriteFile (line 639) has truncated the ledger and before it has written
\* every line of the new content.
KillInSave ==
    /\ pc = "extracted"
    /\ \E lines \in ProperPrefixes(
             saveExtractionProgress(progressFile, TableKey(cur), TRUE, TRUE).content) :
          progressFile' = [exists |-> TRUE, content |-> lines]
    /\ pc' = "killed"
    /\ hist' = [hist EXCEPT !.returned = "killed"]
    /\ UNCHANGED <<plans, tableRows, dataBatchSize, outputFile, dataResume,
                   idx, completedTables, successCount, failCount, cur, runs, faults>>
    /\ UNCHANGED <<filterVars, planVars, buildVars, formatVars, queryVars, gateVars, ledgerVars>>

CrashNext ==
    \/ StartRun
    \/ SkipTable
    \/ CountRows
    \/ ExtractData
    \/ MarkCompleted
    \/ FinishRun
    \/ KillRun
    \/ KillInExtract
    \/ KillInSave

SpecCrash == CrashInit /\ [][CrashNext]_vars

\* The executor over one table of 0..MaxRows rows, with every batch size up
\* to MaxBatch and with or without a fixed sample size.
MaxRows == 5
MaxBatch == 3

BatchPlanLists == { << Plan("db1", "a", sa, <<>>) >> : sa \in {0, 4} }

BatchInit ==
    /\ QueryIdle
    /\ LedgerIdle
    /\ FormatIdle
    /\ GateIdle
    /\ FilterIdle
    /\ PlanIdle
    /\ BuildIdle
    /\ plans \in BatchPlanLists
    /\ tableRows \in { <<n>> : n \in 0..MaxRows }
    /\ dataBatchSize \in 1..MaxBatch
    /\ progressFile = AbsentFile
    /\ outputFile = AbsentFile
    /\ dataResume = ""
    /\ pc = "idle"
    /\ idx = 1
    /\ completedTables = {}
    /\ successCount = 0
    /\ failCount = 0
    /\ cur = NoPlan
    /\ runs = 0
    /\ faults = 0
    /\ hist = NoHistory

SpecBatch == BatchInit /\ [][Next]_vars

-----------------------------------------------------------------------------
(* runDataExtraction: the whole command, from the database list to the      *)
(* final report.  pc = "planning" until executeExtractionPlan is called and *)
(* "exited" once the command has reported.                                  *)

\* Rows of every table of the source in these runs.
LiveRows == 1

RunDatabaseLists == { <<>>, <<"db1">>, <<"db1", "db2">> }

RunDb1Schemas == { Schema(<<>>, <<>>), Schema(<<"a">>, <<>>) }
RunDb2Schemas == { Schema(<<>>, <<>>), Schema(<<"b">>, <<ForeignKey("b", "a")>>) }

RunInit ==
    /\ QueryIdle
    /\ LedgerIdle
    /\ FilterIdle
    /\ FormatIdle
    /\ GateIdle
    /\ databases \in RunDatabaseLists
    /\ catalog \in [{"db1", "db2"} -> RunDb1Schemas \cup RunDb2Schemas]
    /\ catalog["db1"] \in RunDb1Schemas
    /\ catalog["db2"] \in RunDb2Schemas
    /\ Len(databases) < 2 => catalog["db2"] = Schema(<<>>, <<>>)
    /\ Len(databases) < 1 => catalog["db1"] = Schema(<<>>, <<>>)
    /\ dataNoForeignKeyCheck = FALSE
    /\ dataSampleTables = <<>>
    /\ dataSamplePercent = 0
    /\ dataMaxRowsPerTable = 0
    /\ allPlans = <<>>
    /\ sortedPlans = <<>>
    /\ planPc = "analyzing"
    /\ dbIdx = 1
    /\ buildLog = [d \in 1..Len(databases) |-> "none"]
    /\ runReport = "none"
    /\ plans = <<>>
    /\ tableRows = <<>>
    /\ dataBatchSize \in BatchSizes
    /\ progressFile = AbsentFile
    /\ outputFile = AbsentFile
    /\ dataResume = ""
    /\ pc = "planning"
    /\ idx = 1
    /\ completedTables = {}
    /\ successCount = 0
    /\ failCount = 0
    /\ cur = NoPlan
    /\ runs = 0
    /\ faults = 0
    /\ hist = NoHistory

\* Lines 179-181: no database to extract is fatal.
AbortNoDatabases ==
    /\ pc = "planning"
    /\ planPc = "analyzing"
    /\ Len(databases) = 0
    /\ planPc' = "aborted"
    /\ runReport' = "fatal"
    /\ pc' = "exited"
    /\ UNCHANGED <<dataNoForeignKeyCheck, allPlans, sortedPlans>>
    /\ UNCHANGED <<databases, catalog, dataSampleTables, dataSamplePercent,
                   dataMaxRowsPerTable, dbIdx, buildLog>>
    /\ UNCHANGED <<plans, tableRows, dataBatchSize, progressFile, outputFile, dataResume,
                   idx, completedTables, successCount, failCount, cur, runs, faults,
                   hist>>
    /\ UNCHANGED <<filterVars, formatVars, queryVars, gateVars, ledgerVars>>

\* Lines 186-194: createExtractionPlan returned (its error is always nil);
\* the plan list is handed to executeExtractionPlan, whatever its length.
CallExecutor ==
    /\ pc = "planning"
    /\ planPc = "ordered"
    /\ plans' = sortedPlans
    /\ tableRows' = [k \in 1..Len(sortedPlans) |-> LiveRows]
    /\ pc' = "idle"
    /\ UNCHANGED <<dataBatchSize, progressFile, outputFile, dataResume, idx,
                   completedTables, successCount, failCount, cur, runs, faults, hist>>
    /\ UNCHANGED <<filterVars, planVars, buildVars, formatVars, queryVars, gateVars, ledgerVars>>

\* Lines 194-199: log.Fatalf when executeExtractionPlan returned an error,
\* else "Data extraction completed successfully!".
ReportRun ==
    /\ pc \in {"done", "error"}
    /\ runReport = "none"
    /\ runReport' = IF pc = "done" THEN "success" ELSE "fatal"
    /\ pc' = "exited"
    /\ UNCHANGED <<databases, catalog, dataSampleTables, dataSamplePercent,
                   dataMaxRowsPerTable, dbIdx, buildLog>>
    /\ UNCHANGED <<plans, tableRows, dataBatchSize, progressFile, outputFile, dataResume,
                   idx, completedTables, successCount, failCount, cur, runs, faults,
                   hist>>
    /\ UNCHANGED <<filterVars, planVars, formatVars, queryVars, gateVars, ledgerVars>>

RunNext ==
    \/ AbortNoDatabases
    \/ AnalyzeDatabase
    \/ OrderPlans
    \/ CallExecutor
    \/ Next
    \/ ReportRun

SpecRun == RunInit /\ [][RunNext]_vars


-----------------------------------------------------------------------------
(* Claims about the executor                                               *)

Running == pc \in {"loop", "counted", "extracted"}

\* Tables of the plan the current run has finished with.
Finished(k) == k \in 1..Len(hist.outcome) /\ hist.outcome[k] \in {"ok", "failed"}

\* The part of the artifact written by the current run.
WrittenThisRun ==
    IF hist.appendMode
    THEN SubSeq(outputFile.content, Len(hist.startArtifact) + 1, Len(outputFile.content))
    ELSE outputFile.content

RECURSIVE RowsFor(_, _)
RowsFor(stmts, table) ==
    IF stmts = <<>> THEN 0
    ELSE (IF Head(stmts).kind = "insert" /\ Head(stmts).table = table
          THEN Head(stmts).last - Head(stmts).first + 1
          ELSE 0) + RowsFor(Tail(stmts), table)

IsPrefix(a, b) == Len(a) <= Len(b) /\ SubSeq(b, 1, Len(a)) = a

Kinds(stmts) == { stmts[j].kind : j \in 1..Len(stmts) }

\* C2: a table whose query fails, whose row scan fails, whose row stream
\* ends with an error part-way, or one of whose insert statements cannot be
\* written, is counted as failed and its key is not saved to the ledger.
C2_FailedExtractionNotCompleted ==
    \A k \in 1..Len(hist.outcome) :
        ( /\ Finished(k)
          /\ (hist.scanFault[k] \in {"query", "scan", "stream"} \/ k \in hist.lostWrite) )
        => /\ hist.outcome[k] = "failed"
           /\ TableKey(plans[k]) \notin hist.saved

\* C3: a failed table never ends the run: the only error return precedes the
\* loop; a finished run returned nil, has dealt with every table of the plan
\* in plan order and has closed the artifact with the enable statement.
C3_FailureDoesNotAbort ==
    /\ hist.returned = "error" => (hist.attempted = <<>> /\ failCount = 0)
    /\ failCount > 0 => pc # "error"
    /\ pc = "done" =>
          /\ hist.returned = "nil"
          /\ \A k \in 1..Len(plans) : hist.outcome[k] \in {"skipped", "ok", "failed"}
          /\ \A a, b \in 1..Len(hist.attempted) :
                a < b => hist.attempted[a] < hist.attempted[b]
          /\ { hist.attempted[a] : a \in 1..Len(hist.attempted) }
                = { k \in 1..Len(plans) : hist.outcome[k] # "skipped" }
          /\ outputFile.content[Len(outputFile.content)] = EnableStmt

\* A finished run whose first table failed and whose second table succeeded.
C3_Witness ==
    /\ pc = "done"
    /\ hist.outcome[1] = "failed"
    /\ hist.outcome[2] = "ok"
    /\ hist.returned = "nil"

\* A resumed run that found every table of the plan in the ledger it loaded.
ResumedOverCompleteLedger ==
    /\ pc = "done"
    /\ dataResume # ""
    /\ runs >= 2
    /\ \A k \in 1..Len(plans) : TableKey(plans[k]) \in completedTables

\* C4 as stated: such a run adds no key to the ledger and leaves the
\* artifact unchanged.
C4_ResumeLeavesArtifactUnchanged ==
    ResumedOverCompleteLedger =>
        /\ progressFile.content = hist.startLedger
        /\ outputFile.content = hist.startArtifact

\* C4 amended: such a run saves no key, leaves the ledger as it was, adds no
\* table block and changes the artifact only by appending one more closing
\* enable statement.
C4_ResumeAppendsOnlyEnable ==
    ResumedOverCompleteLedger =>
        /\ hist.saved = {}
        /\ progressFile.content = hist.startLedger
        /\ hist.attempted = <<>>
        /\ outputFile.content = Append(hist.startArtifact, EnableStmt)

\* The second run resumed over a ledger holding both tables, after a first
\* run that wrote a block for each.
C4_Witness ==
    /\ ResumedOverCompleteLedger
    /\ Cardinality({ j \in 1..Len(hist.startArtifact) : hist.startArtifact[j].kind = "use" }) = 2

\* C5: in the artifact every insert statement lies between the disable
\* statement and the next enable statement, and a finished artifact ends
\* with the enable statement.
C5_InsertsInsideBracket ==
    LET c == outputFile.content
    IN  /\ \A j \in 1..Len(c) :
              c[j].kind = "insert" =>
                 \E d \in 1..(j - 1) :
                    /\ c[d].kind = "disable"
                    /\ \A e \in (d + 1)..(j - 1) : c[e].kind # "enable"
        /\ pc = "done" => c[Len(c)].kind = "enable"

\* C6: resuming with a non-empty ledger keeps the previous artifact as a
\* prefix and writes neither header nor disable statement; otherwise the
\* artifact is a new one that begins with the header and the disable
\* statement.
C6_AppendOrNewArtifact ==
    (Running \/ pc = "done") =>
        IF dataResume # "" /\ completedTables # {}
        THEN /\ IsPrefix(hist.startArtifact, outputFile.content)
             /\ Kinds(SubSeq(outputFile.content, Len(hist.startArtifact) + 1,
                             Len(outputFile.content))) \cap {"header", "disable"} = {}
        ELSE /\ Len(outputFile.content) >= 2
             /\ outputFile.content[1] = HeaderStmt
             /\ outputFile.content[2] = DisableStmt
             /\ \A j \in 3..Len(outputFile.content) :
                   outputFile.content[j].kind \notin {"header", "disable"}

\* A resumed run has appended a table block to a previous run's artifact.
C6_Witness ==
    /\ pc = "done"
    /\ dataResume # ""
    /\ completedTables # {}
    /\ Len(hist.startArtifact) > 2
    /\ Len(outputFile.content) > Len(hist.startArtifact) + 1

\* C9: the rows a run writes for a table stay within the table's sampling
\* limit: N for a fixed cap N > 0, floor(rows * p / 100) for a percentage p.
C9_SamplingLimitRespected ==
    \A k \in 1..Len(hist.outcome) :
        Finished(k) =>
            LET written == RowsFor(WrittenThisRun, plans[k].TableName)
                size == plans[k].SampleSize
            IN  /\ size > 0 => written <= size
                /\ size < 0 => written * 100 <= tableRows[k] * (-size)

\* C10: between the count and the scan, and until the table is done, the
\* loop's plan holds the fetched row count (0 when the count failed) and a
\* percentage sample size -p has become floor(rowCount * p / 100); a fixed
\* sample size is untouched; 200 rows at 10 percent give 20.
C10_PercentageResolved ==
    pc \in {"counted", "extracted"} =>
        LET p == plans[idx].SampleSize
        IN  /\ cur.RowCount = IF idx \in hist.countFault THEN 0 ELSE tableRows[idx]
            /\ cur.SampleSize >= 0
            /\ p >= 0 => cur.SampleSize = p
            /\ p < 0 => /\ 100 * cur.SampleSize <= cur.RowCount * (-p)
                        /\ cur.RowCount * (-p) < 100 * (cur.SampleSize + 1)
            /\ (cur.RowCount = 200 /\ p = -10) => cur.SampleSize = 20
            /\ plans[idx].SampleSize = p

\* The 10 percent directive has been resolved against a count of 200 rows.
C10_Witness ==
    /\ pc = "counted"
    /\ plans[idx].SampleSize = -10
    /\ cur.RowCount = 200
    /\ cur.SampleSize = 20

-----------------------------------------------------------------------------
(* Claims about batching                                                    *)

\* ceil(n / B) statements over rows 1..n in scan order: statement j holds
\* rows (j-1)*B+1 .. j*B, the last one what is left.
Batches(table, n, B) ==
    [j \in 1..((n + B - 1) \div B) |->
        InsertStmt(table, (j - 1) * B + 1, Min(j * B, n))]

\* C12: an extraction that returns without error, none of whose writes
\* failed, has added to the artifact the table's USE statement, then for the
\* n rows its scan delivered exactly ceil(n/B) insert statements, the first
\* floor(n/B) of B rows and the last of the remainder, covering rows 1..n
\* once each in scan order, then the blank line.  n is every row the query
\* returns unless the row stream broke off.
C12_BatchStatements ==
    [][ ( /\ pc = "counted" /\ pc' = "extracted"
          /\ idx \notin hist'.lostWrite
          /\ dataBatchSize >= 1 )
        => \E n \in 0..RowsReturned(cur, tableRows[idx]) :
              /\ hist'.scanFault[idx] = "ok" => n = RowsReturned(cur, tableRows[idx])
              /\ outputFile'.content =
                    outputFile.content \o <<UseStmt(cur)>>
                       \o Batches(cur.TableName, n, dataBatchSize) \o <<BlankStmt>> ]_vars

\* Batch size 2 and 5 rows: statements of 2, 2 and 1 rows.
C12_Witness ==
    /\ pc = "extracted"
    /\ dataBatchSize = 2
    /\ tableRows[idx] = 5
    /\ hist.scanFault[idx] = "ok"
    /\ idx \notin hist.lostWrite
    /\ LET c == outputFile.content
           k == Len(c)
       IN  /\ k >= 5
           /\ c[k] = BlankStmt
           /\ c[k - 1] = InsertStmt("a", 5, 5)
           /\ c[k - 2] = InsertStmt("a", 3, 4)
           /\ c[k - 3] = InsertStmt("a", 1, 2)
           /\ c[k - 4].kind = "use"

-----------------------------------------------------------------------------
(* Claims about the ledger                                                  *)

\* The keys a load of the ledger returns when the file can be read.
LedgerKeys(file) == loadExtractionProgress(file, TRUE)

\* C13: the key set of the ledger only grows: no step of a run, and no later
\* run on the same ledger, removes a key that load once returned, also when
\* the read inside an update fails.
C13_LedgerOnlyGrows ==
    [][LedgerKeys(progressFile) \subseteq LedgerKeys(progressFile')]_vars

-----------------------------------------------------------------------------
(* formatSQLValue.  A value is the interface{} a column was scanned into:   *)
(* its dynamic type (kind) and its content.  Texts and literals are         *)
(* sequences of characters.  The time.Time and float64 cases and the        *)
(* default case of the type switch are not part of the model.               *)

Value(kind, text, int, bool) == [kind |-> kind, text |-> text, int |-> int, bool |-> bool]

NilValue == Value("nil", <<>>, 0, FALSE)

\* fmt.Sprintf("%d", val)
RECURSIVE FormatNat(_)
FormatNat(n) ==
    IF n < 10 THEN <<Digits[n + 1]>>
    ELSE Append(FormatNat(n \div 10), Digits[(n % 10) + 1])

FormatInt(n) == IF n < 0 THEN <<"-">> \o FormatNat(0 - n) ELSE FormatNat(n)

\* An escaping that handles the single quote before the backslash.
EscapeTextQuoteFirst(str) ==
    LET s1 == ReplaceAll(str, <<"'">>, <<"\\", "'">>)
        s2 == ReplaceAll(s1, <<"\\">>, <<"\\", "\\">>)
        s3 == ReplaceAll(s2, <<"\n">>, <<"\\", "n">>)
        s4 == ReplaceAll(s3, <<"\r">>, <<"\\", "r">>)
    IN  ReplaceAll(s4, <<"\t">>, <<"\\", "t">>)

\* Lines 735-739 (and 744-748): the five replacements, in the code's order.
EscapeText(str) ==
    LET s1 == ReplaceAll(str, <<"\\">>, <<"\\", "\\">>)
        s2 == ReplaceAll(s1, <<"'">>, <<"\\", "'">>)
        s3 == ReplaceAll(s2, <<"\n">>, <<"\\", "n">>)
        s4 == ReplaceAll(s3, <<"\r">>, <<"\\", "r">>)
    IN  ReplaceAll(s4, <<"\t">>, <<"\\", "t">>)

formatSQLValue(v) ==
    CASE v.kind = "nil"    -> <<"N", "U", "L", "L">>
      [] v.kind = "bytes"  -> <<"'">> \o EscapeText(v.text) \o <<"'">>
      [] v.kind = "string" -> <<"'">> \o EscapeText(v.text) \o <<"'">>
      [] v.kind = "int64"  -> FormatInt(v.int)
      [] v.kind = "bool"   -> IF v.bool THEN <<"1">> ELSE <<"0">>

\* Contents of text and byte values: every text of up to MaxText characters
\* over the five escaped characters and two plain ones, and O'Brien followed
\* by a newline.
TextChars == {"\\", "'", "\n", "\r", "\t", "n", "O"}

MaxText == 3

OBrien == <<"O", "'", "B", "r", "i", "e", "n", "\n">>

Texts == SeqsUpTo(TextChars, MaxText) \cup {OBrien}

SqlValues ==
    {NilValue}
    \cup { Value(kind, text, 0, FALSE) : kind \in {"bytes", "string"}, text \in Texts }
    \cup { Value("int64", <<>>, n, FALSE) : n \in {0, 7, -12} }
    \cup { Value("bool", <<>>, 0, b) : b \in BOOLEAN }

FormatInit ==
    /\ QueryIdle
    /\ LedgerIdle
    /\ GateIdle
    /\ FilterIdle
    /\ PlanIdle
    /\ ExecIdle
    /\ BuildIdle
    /\ sqlValue \in SqlValues
    /\ sqlLiteral = <<>>
    /\ formatPc = "ready"

\* Line 699: values[i] = formatSQLValue(v)
FormatValue ==
    /\ formatPc = "ready"
    /\ sqlLiteral' = formatSQLValue(sqlValue)
    /\ formatPc' = "formatted"
    /\ UNCHANGED sqlValue
    /\ UNCHANGED <<filterVars, planVars, execVars, buildVars, queryVars, gateVars, ledgerVars>>

FormatNext == FormatValue

SpecFormat == FormatInit /\ [][FormatNext]_vars

-----------------------------------------------------------------------------
(* Claims about formatSQLValue                                              *)

\* The two-character escape of a character, or the character itself.
EscapeChar(c) ==
    CASE c = "\\" -> <<"\\", "\\">>
      [] c = "'"  -> <<"\\", "'">>
      [] c = "\n" -> <<"\\", "n">>
      [] c = "\r" -> <<"\\", "r">>
      [] c = "\t" -> <<"\\", "t">>
      [] OTHER    -> <<c>>

RECURSIVE EscapeEach(_)
EscapeEach(text) ==
    IF text = <<>> THEN <<>> ELSE EscapeChar(Head(text)) \o EscapeEach(Tail(text))

\* Reading a literal's body back: a backslash and the character after it
\* stand for one character.
UnescapeChar(c) ==
    CASE c = "n" -> "\n"
      [] c = "r" -> "\r"
      [] c = "t" -> "\t"
      [] OTHER   -> c

RECURSIVE Unescape(_)
Unescape(body) ==
    IF body = <<>> THEN <<>>
    ELSE IF Head(body) = "\\" /\ Len(body) >= 2
         THEN <<UnescapeChar(body[2])>> \o Unescape(SubSeq(body, 3, Len(body)))
         ELSE <<Head(body)>> \o Unescape(Tail(body))

\* Number of backslashes that directly precede position i.
RECURSIVE BackslashesBefore(_, _)
BackslashesBefore(body, i) ==
    IF i > 1 /\ body[i - 1] = "\\" THEN 1 + BackslashesBefore(body, i - 1) ELSE 0

Body(literal) == SubSeq(literal, 2, Len(literal) - 1)

OBrienLiteral == <<"'", "O", "\\", "'", "B", "r", "i", "e", "n", "\\", "n", "'">>

\* C14: nil gives the bare token NULL; a text or byte value gives its
\* content between single quotes with backslash, single quote, newline,
\* carriage return and tab each replaced by its two-character escape; every
\* single quote of the body is escaped; the content can be read back from
\* the literal, so distinct contents give distinct literals; text and bytes
\* of the same content give the same literal; O'Brien and a newline give
\* 'O\'Brien\n'.
C14_TextLiteral ==
    formatPc = "formatted" =>
       /\ sqlValue.kind = "nil" => sqlLiteral = <<"N", "U", "L", "L">>
       /\ sqlValue.kind \in {"bytes", "string"} =>
             /\ sqlLiteral = <<"'">> \o EscapeEach(sqlValue.text) \o <<"'">>
             /\ \A i \in 1..Len(Body(sqlLiteral)) :
                   Body(sqlLiteral)[i] = "'" =>
                      BackslashesBefore(Body(sqlLiteral), i) % 2 = 1
             /\ Unescape(Body(sqlLiteral)) = sqlValue.text
             /\ sqlLiteral = formatSQLValue(Value("string", sqlValue.text, 0, FALSE))
             /\ sqlLiteral = formatSQLValue(Value("bytes", sqlValue.text, 0, FALSE))
             /\ sqlValue.text = OBrien => sqlLiteral = OBrienLiteral

\* The string O'Brien followed by a newline has been serialised.
C14_Witness ==
    /\ formatPc = "formatted"
    /\ sqlValue = Value("string", OBrien, 0, FALSE)
    /\ sqlLiteral = OBrienLiteral

-----------------------------------------------------------------------------
(* Claims about the whole command                                           *)

\* Planning has ended without a single table.
ZeroTablesDiscovered == planPc \in {"collected", "ordered"} /\ allPlans = <<>>

\* C15: when planning discovers no table in any requested database, the
\* command aborts with an error before extraction: executeExtractionPlan is
\* not entered, the artifact is neither created nor truncated, and the
\* command does not report success.
C15_ZeroTablesAbort ==
    ZeroTablesDiscovered =>
       /\ pc \in {"planning", "exited"}
       /\ runs = 0
       /\ outputFile = AbsentFile
       /\ runReport # "success"
       /\ pc = "exited" => runReport = "fatal"

\* The plans of a list that belong to a database.
PlansOf(ps, dbName) == { i \in 1..Len(ps) : ps[i].DatabaseName = dbName }

\* C16: a database whose table listing or foreign key listing failed has no
\* plan in the list planning returns, every table of every other database
\* has one, and planning returns no error.
C16_FailedListingSkipsDatabase ==
    planPc \in {"collected", "ordered"} =>
       \A d \in 1..Len(databases) :
          /\ buildLog[d] \in {"tablesFailed", "fkFailed"}
                => PlansOf(allPlans, databases[d]) = {}
          /\ buildLog[d] = "planned"
                => \A t \in 1..Len(catalog[databases[d]].tables) :
                      \E i \in PlansOf(allPlans, databases[d]) :
                         allPlans[i].TableName = catalog[databases[d]].tables[t]

-----------------------------------------------------------------------------
(* Claims about cycles                                                      *)

\* The edges the resolver follows: a name stands for the first plan of that
\* name, and leads to that plan's dependencies.
ResolvedEdges(ps) ==
    UNION { { <<ps[i].TableName, ps[i].Dependencies[k]>> :
                 k \in 1..Len(ps[i].Dependencies) } :
            i \in { j \in 1..Len(ps) : FirstPlanIndex(ps, ps[j].TableName) = j } }

\* The table names that lie on a dependency cycle.
CycleNames(ps) ==
    { n \in PlanNames(ps) : n \in Descendants(ResolvedEdges(ps), n) }

\* C17: on a plan list with a dependency cycle the sort returns (so it has
\* terminated) and the plan of every table on the cycle occurs exactly once
\* in the result, which holds no other plan of that name.
C17_CycleTablesOnce ==
    (planPc = "ordered" /\ ~dataNoForeignKeyCheck) =>
        \A n \in CycleNames(allPlans) :
           /\ Cardinality({ j \in 1..Len(sortedPlans) :
                               sortedPlans[j].TableName = n }) = 1
           /\ \E j \in 1..Len(sortedPlans) :
                 sortedPlans[j] = allPlans[FirstPlanIndex(allPlans, n)]

\* The sort has returned for a and b that depend on each other.
C17_Witness ==
    /\ planPc = "ordered"
    /\ ~dataNoForeignKeyCheck
    /\ Len(allPlans) = 2
    /\ allPlans[1].TableName = "a" /\ allPlans[1].Dependencies = <<"b">>
    /\ allPlans[2].TableName = "b" /\ allPlans[2].Dependencies = <<"a">>
    /\ CycleNames(allPlans) = {"a", "b"}
    /\ Len(sortedPlans) = 2

-----------------------------------------------------------------------------
(* Claims about the run identifier                                          *)

\* The completions recorded under an identifier: by the runs that were given
\* it, and by the runs that were given none.
RecordedFor(id) == { r[2] : r \in { x \in hist.recorded : x[1] \in {id, ""} } }

\* C18: a run resumed with identifier X works on the ledger of X: the
\* completions it has loaded were all recorded under X (or by a run without
\* identifier), never by a run that was given a different identifier.
C18_LedgerPerIdentifier ==
    (dataResume # "" /\ pc \in {"loop", "counted", "extracted", "done"})
       => completedTables \subseteq RecordedFor(dataResume)

-----------------------------------------------------------------------------
(* Query service: RateLimiter, AuditLogger, QueryExecutor.ExecuteQuery and  *)
(* the MCP server's query_database handler.  A caller has at most one       *)
(* request in progress; the steps of a request are split where it takes     *)
(* the limiter's mutex.                                                     *)

\* NewRateLimiter(10, 3) of the MCP server; the query command's defaults.
McpMaxPerSecond == 10
McpMaxConcurrent == 3
QueryRateLimit == 5
QueryMaxConcurrent == 2

MaxRequests == 6

NewRateLimiter(maxPerSecond, maxConcurrent) ==
    [maxPerSecond |-> maxPerSecond, maxConcurrent |-> maxConcurrent,
     count |-> 0, concurrent |-> 0]

\* RateLimiter.Allow under its mutex.  isElapsed: time.Since(lastReset) is
\* more than a second, so the counter is reset first.
Allow(r, isElapsed) ==
    LET r1 == IF isElapsed THEN [r EXCEPT !.count = 0] ELSE r
    IN  IF r1.count >= r1.maxPerSecond
        THEN [rl |-> r1, allowed |-> FALSE, err |-> "rate limit exceeded"]
        ELSE IF r1.concurrent >= r1.maxConcurrent
        THEN [rl |-> r1, allowed |-> FALSE, err |-> "concurrent limit exceeded"]
        ELSE [rl |-> [r1 EXCEPT !.count = @ + 1, !.concurrent = @ + 1],
              allowed |-> TRUE, err |-> ""]

\* RateLimiter.Release under its mutex.
Release(r) == IF r.concurrent > 0 THEN [r EXCEPT !.concurrent = @ - 1] ELSE r

\* --- QueryValidator: query texts are sequences of characters ---

LowerLetters == <<"a", "b", "c", "d", "e", "f", "g", "h", "i", "j", "k", "l", "m", "n", "o", "p", "q", "r", "s", "t", "u", "v", "w", "x", "y", "z">>
UpperLetters == <<"A", "B", "C", "D", "E", "F", "G", "H", "I", "J", "K", "L", "M", "N", "O", "P", "Q", "R", "S", "T", "U", "V", "W", "X", "Y", "Z">>

\* strings.ToUpper, on the letters a-z.
UpperOf ==
    [c \in { LowerLetters[i] : i \in 1..Len(LowerLetters) } |->
        UpperLetters[CHOOSE i \in 1..Len(LowerLetters) : LowerLetters[i] = c]]

ToUpperChar(c) == IF c \in DOMAIN UpperOf THEN UpperOf[c] ELSE c

ToUpper(s) == [i \in 1..Len(s) |-> ToUpperChar(s[i])]

\* White space of strings.TrimSpace and of the regular expressions' \s.
IsSpace(c) == c \in {" ", "\t", "\n", "\r"}

\* strings.TrimSpace: s without its leading and trailing white space.
TrimSpace(s) ==
    LET n == Len(s)
        first == CHOOSE i \in 1..(n + 1) :
                    /\ i = n + 1 \/ ~IsSpace(s[i])
                    /\ \A j \in 1..(i - 1) : IsSpace(s[j])
        last == CHOOSE i \in 0..n :
                    /\ i = 0 \/ ~IsSpace(s[i])
                    /\ \A j \in (i + 1)..n : IsSpace(s[j])
    IN  IF first > last THEN <<>> ELSE SubSeq(s, first, last)

HasSuffix(s, suffix) ==
    /\ Len(suffix) <= Len(s)
    /\ SubSeq(s, Len(s) - Len(suffix) + 1, Len(s)) = suffix

\* strings.Count(s, c) for a one-character c.
Count(s, c) == Cardinality({ i \in 1..Len(s) : s[i] = c })

\* A word character of the regular expressions' \b: [0-9A-Za-z_].
WordChars ==
    { LowerLetters[i] : i \in 1..Len(LowerLetters) }
    \cup { UpperLetters[i] : i \in 1..Len(UpperLetters) }
    \cup { Digits[i] : i \in 1..Len(Digits) }
    \cup {"_"}

IsWordChar(c) == c \in WordChars

\* A word boundary lies between positions i and i + 1 of s (0 <= i <= Len(s)).
BoundaryAt(s, i) ==
    LET before == i >= 1 /\ IsWordChar(s[i])
        after == i < Len(s) /\ IsWordChar(s[i + 1])
    IN  before # after

\* (?i)\bword\b matches somewhere in s.
MatchesWord(s, word) ==
    \E i \in 1..(Len(s) - Len(word) + 1) :
        /\ ToUpperChar(s[i]) = word[1]
        /\ ToUpper(SubSeq(s, i, i + Len(word) - 1)) = word
        /\ BoundaryAt(s, i - 1)
        /\ BoundaryAt(s, i + Len(word) - 1)

\* (?i)\bfirst\s+second\b matches somewhere in s.
MatchesPair(s, first, second) ==
    \E i \in 1..(Len(s) - Len(first) + 1) :
        /\ ToUpper(SubSeq(s, i, i + Len(first) - 1)) = first
        /\ BoundaryAt(s, i - 1)
        /\ \E j \in (i + Len(first) + 1)..(Len(s) - Len(second) + 1) :
              /\ \A k \in (i + Len(first))..(j - 1) : IsSpace(s[k])
              /\ ToUpper(SubSeq(s, j, j + Len(second) - 1)) = second
              /\ BoundaryAt(s, j + Len(second) - 1)

\* NewQueryValidator: the security rules.
allowedOperations ==
    << <<"S", "E", "L", "E", "C", "T">>,
       <<"S", "H", "O", "W">>,
       <<"D", "E", "S", "C", "R", "I", "B", "E">>,
       <<"D", "E", "S", "C">>,
       <<"E", "X", "P", "L", "A", "I", "N">> >>

\* The words of blockedPatterns[0], [1] and [2].
BlockedWords ==
    { <<"D", "R", "O", "P">>,
      <<"D", "E", "L", "E", "T", "E">>,
      <<"U", "P", "D", "A", "T", "E">>,
      <<"I", "N", "S", "E", "R", "T">>,
      <<"A", "L", "T", "E", "R">>,
      <<"C", "R", "E", "A", "T", "E">>,
      <<"T", "R", "U", "N", "C", "A", "T", "E">>,
      <<"E", "X", "E", "C">>,
      <<"E", "X", "E", "C", "U", "T", "E">>,
      <<"L", "O", "A", "D", "_", "F", "I", "L", "E">>,
      <<"S", "Y", "S", "T", "E", "M">>,
      <<"G", "R", "A", "N", "T">>,
      <<"R", "E", "V", "O", "K", "E">>,
      <<"S", "E", "T">>,
      <<"K", "I", "L", "L">> }

\* The comment markers of blockedPatterns[3].
CommentMarkers == { <<"-", "-">>, <<"#">>, <<"/", "*">>, <<"*", "/">> }

blockedPatterns(query) ==
    \/ \E word \in BlockedWords : MatchesWord(query, word)
    \/ MatchesPair(query, <<"I", "N", "T", "O">>, <<"O", "U", "T", "F", "I", "L", "E">>)
    \/ \E marker \in CommentMarkers : Contains(query, marker)

maxQueryLength == 10000

\* Validate without its blocked patterns.
ValidatePrefixOnly(query) ==
    LET normalized == TrimSpace(ToUpper(query))
    IN  IF Len(query) > maxQueryLength
        THEN "query exceeds maximum length"
        ELSE IF normalized = <<>>
        THEN "empty query"
        ELSE IF ~\E i \in 1..Len(allowedOperations) :
                    HasPrefix(normalized, allowedOperations[i])
        THEN "query must start with one of"
        ELSE IF \/ Count(query, ";") > 1
                \/ (Contains(query, <<";">>) /\ ~HasSuffix(TrimSpace(query), <<";">>))
        THEN "multiple statements not allowed"
        ELSE ""

\* QueryValidator.Validate: the error it returns, "" for nil.
Validate(query) ==
    LET normalized == TrimSpace(ToUpper(query))
    IN  IF Len(query) > maxQueryLength
        THEN "query exceeds maximum length"
        ELSE IF normalized = <<>>
        THEN "empty query"
        ELSE IF ~\E i \in 1..Len(allowedOperations) :
                    HasPrefix(normalized, allowedOperations[i])
        THEN "query must start with one of"
        ELSE IF blockedPatterns(query)
        THEN "query contains prohibited operation or pattern"
        ELSE IF \/ Count(query, ";") > 1
                \/ (Contains(query, <<";">>) /\ ~HasSuffix(TrimSpace(query), <<";">>))
        THEN "multiple statements not allowed"
        ELSE ""

Select1 == <<"S", "E", "L", "E", "C", "T", " ", "1">>
DropTableT == <<"D", "R", "O", "P", " ", "T", "A", "B", "L", "E", " ", "t">>

\* Queries a client sends: one that passes QueryValidator.Validate and one
\* that a blocked pattern rejects.
Queries == {Select1, DropTableT}

Databases == {"", "shop"}

QueryAuditEvent(success, error) == [Success |-> success, Error |-> error]

\* AuditLogger.Log: appends the event unless the logger has no file.
Log(events, event) == IF auditOn THEN Append(events, event) ELSE events

\* Requests that hold the handler between its Allow and its return.
InFlight == { c \in Clients : requests[c].pc \in {"admitted", "executing"} }

QueryInit ==
    /\ FilterIdle
    /\ PlanIdle
    /\ ExecIdle
    /\ BuildIdle
    /\ FormatIdle
    /\ GateIdle
    /\ LedgerIdle
    /\ mode \in {"mcp", "query"}
    /\ rl = IF mode = "mcp"
            THEN NewRateLimiter(McpMaxPerSecond, McpMaxConcurrent)
            ELSE NewRateLimiter(QueryRateLimit, QueryMaxConcurrent)
    /\ elapsed = FALSE
    /\ auditOn \in BOOLEAN
    /\ requests = [c \in Clients |-> NoRequest]
    /\ answer = NoAnswer
    /\ issued = 0
    /\ admittedInWindow = 0

\* More than a second has passed since the limiter's last reset.
Tick ==
    /\ mode \in {"mcp", "query"}
    /\ ~elapsed
    /\ elapsed' = TRUE
    /\ UNCHANGED <<mode, rl, auditOn, requests, answer, issued, admittedInWindow>>
    /\ UNCHANGED <<filterVars, planVars, execVars, buildVars, formatVars, gateVars, ledgerVars>>

\* A request in progress, and the answer to a request.
OpenRequest(pcv, query, database, slots) ==
    [NoRequest EXCEPT !.pc = pcv, !.query = query, !.database = database,
                      !.slots = slots]

Answered(events, outcome, sawAdmitted, sawInFlight) ==
    [outcome |-> outcome, events |-> events,
     sawAdmitted |-> sawAdmitted, sawInFlight |-> sawInFlight]

\* mcp.go lines 92-118: a query_database request arrives and the handler
\* asks the limiter; a refused request is answered with error -32603.
McpAllow(c) ==
    /\ mode = "mcp"
    /\ requests[c].pc = "idle"
    /\ issued < MaxRequests
    /\ \E query \in Queries, database \in Databases :
          LET a == Allow(rl, elapsed)
              window == IF elapsed THEN 0 ELSE admittedInWindow
          IN  /\ rl' = a.rl
              /\ admittedInWindow' = window + (IF a.allowed THEN 1 ELSE 0)
              /\ IF a.allowed
                 THEN /\ requests' = [requests EXCEPT ![c] =
                            OpenRequest("admitted", query, database, 1)]
                      /\ answer' = answer
                 ELSE /\ requests' = requests
                      /\ answer' = Answered(<<>>, "rateLimited", window,
                                            Cardinality(InFlight))
    /\ elapsed' = FALSE
    /\ issued' = issued + 1
    /\ UNCHANGED <<mode, auditOn>>
    /\ UNCHANGED <<filterVars, planVars, execVars, buildVars, formatVars, gateVars, ledgerVars>>

\* mcp.go lines 120-150 and ExecuteQuery lines 1061-1075: the handler
\* validates the query (logging and answering -32602 when it is rejected),
\* builds a QueryExecutor on the server's own limiter and calls ExecuteQuery,
\* which asks the limiter again.  The deferred Release of the handler runs
\* when it returns.
McpValidateAndCall(c) ==
    /\ mode = "mcp"
    /\ requests[c].pc = "admitted"
    /\ LET req == requests[c]
           a == Allow(rl, elapsed)
           window == IF elapsed THEN 0 ELSE admittedInWindow
       IN  IF Validate(req.query) # ""
           THEN /\ requests' = [requests EXCEPT ![c] = NoRequest]
                /\ answer' = Answered(Log(<<>>, QueryAuditEvent(FALSE, Validate(req.query))),
                                      "invalid", 0, 0)
                /\ rl' = Release(rl)
                /\ UNCHANGED <<elapsed, admittedInWindow>>
           ELSE /\ elapsed' = FALSE
                /\ admittedInWindow' = window
                /\ IF a.allowed
                   THEN /\ requests' = [requests EXCEPT ![c] =
                              OpenRequest("executing", req.query, req.database, 2)]
                        /\ answer' = answer
                        /\ rl' = a.rl
                   ELSE /\ requests' = [requests EXCEPT ![c] = NoRequest]
                        /\ answer' = Answered(Log(<<>>, QueryAuditEvent(FALSE, a.err)),
                                              "execRateLimited", window,
                                              Cardinality(InFlight))
                        /\ rl' = Release(a.rl)
    /\ UNCHANGED <<mode, auditOn, issued>>
    /\ UNCHANGED <<filterVars, planVars, execVars, buildVars, formatVars, gateVars, ledgerVars>>

\* runQuery lines 1411-1424 and ExecuteQuery lines 1061-1075: the query
\* command calls ExecuteQuery once, on a limiter of its own.
DirectCall(c) ==
    /\ mode = "query"
    /\ issued = 0
    /\ \E query \in Queries, database \in Databases :
          LET a == Allow(rl, elapsed)
              window == IF elapsed THEN 0 ELSE admittedInWindow
          IN  /\ rl' = a.rl
              /\ admittedInWindow' = window + (IF a.allowed THEN 1 ELSE 0)
              /\ IF a.allowed
                 THEN /\ requests' = [requests EXCEPT ![c] =
                            OpenRequest("executing", query, database, 1)]
                      /\ answer' = answer
                 ELSE /\ requests' = requests
                      /\ answer' = Answered(Log(<<>>, QueryAuditEvent(FALSE, a.err)),
                                            "execRateLimited", window,
                                            Cardinality(InFlight))
    /\ elapsed' = FALSE
    /\ issued' = issued + 1
    /\ UNCHANGED <<mode, auditOn>>
    /\ UNCHANGED <<filterVars, planVars, execVars, buildVars, formatVars, gateVars, ledgerVars>>

\* What the rest of ExecuteQuery can come to.
ExecOutcomes ==
    {"invalid", "useFailed", "queryFailed", "columnsFailed", "scanFailed", "rowsErr", "ok"}

\* The audit events ExecuteQuery writes after the limiter let it pass:
\* lines 1079-1086 (validation), 1106-1114 (QueryContext error), 1173-1181
\* (success); the returns of lines 1093, 1122, 1139 and 1169 write none.
ExecEvents(outcome) ==
    CASE outcome = "invalid" -> Log(<<>>, QueryAuditEvent(FALSE, "validation failed"))
      [] outcome = "queryFailed" -> Log(<<>>, QueryAuditEvent(FALSE, "query execution failed"))
      [] outcome = "ok" -> Log(<<>>, QueryAuditEvent(TRUE, ""))
      [] OTHER -> <<>>

\* ExecuteQuery lines 1077-1192 with its deferred Release, and, in the MCP
\* server, the handler's return (lines 151-190) with its deferred Release.
ExecFinish(c) ==
    /\ requests[c].pc = "executing"
    /\ \E outcome \in ExecOutcomes :
          /\ outcome = "invalid" <=> Validate(requests[c].query) # ""
          /\ outcome = "useFailed" => requests[c].database # ""
          /\ answer' = Answered(ExecEvents(outcome), outcome, 0, 0)
    /\ requests' = [requests EXCEPT ![c] = NoRequest]
    /\ rl' = IF mode = "mcp" THEN Release(Release(rl)) ELSE Release(rl)
    /\ UNCHANGED <<mode, elapsed, auditOn, issued, admittedInWindow>>
    /\ UNCHANGED <<filterVars, planVars, execVars, buildVars, formatVars, gateVars, ledgerVars>>

QueryNext ==
    \/ Tick
    \/ \E c \in Clients : McpAllow(c)
    \/ \E c \in Clients : McpValidateAndCall(c)
    \/ \E c \in Clients : DirectCall(c)
    \/ \E c \in Clients : ExecFinish(c)

SpecQuery == QueryInit /\ [][QueryNext]_vars

-----------------------------------------------------------------------------
(* Claims about the query service.                                          *)

\* C19: in the MCP server (10 per second, 3 concurrent) every request in
\* flight holds exactly one slot of the limiter, so the in-flight count is
\* the number of requests in progress, stays within 0..3 and is 0 when no
\* request is in progress; and a query_database request is refused by the
\* limiter only when 10 requests have been admitted in the current window
\* or 3 requests are in flight.
C19_McpAdmission ==
    mode = "mcp" =>
        /\ rl.concurrent = Cardinality(InFlight)
        /\ rl.concurrent \in 0..McpMaxConcurrent
        /\ (InFlight = {} => rl.concurrent = 0)
        /\ answer.outcome \in {"rateLimited", "execRateLimited"}
              => \/ answer.sawAdmitted >= McpMaxPerSecond
                 \/ answer.sawInFlight >= McpMaxConcurrent

\* C20: with an audit log file open, every answered query attempt has left
\* at least one audit event, and the event carries the attempt's status:
\* success for a query that returned its rows, failure for every other end.
C20_EveryAttemptAudited ==
    (auditOn /\ answer.outcome # "none") =>
        /\ Len(answer.events) >= 1
        /\ \A i \in 1..Len(answer.events) :
              answer.events[i].Success = (answer.outcome = "ok")

-----------------------------------------------------------------------------
(* The read-only gate: ExecuteQuery from its call of Validate (line 1077)   *)
(* to its call of QueryContext (line 1102), for a call the limiter let pass. *)

\* Texts queries are put together from.
QueryPieces ==
    { <<"s", "e", "l", "e", "c", "t">>, <<"S", "H", "O", "W">>, <<" ">>, <<";">>, <<"d", "r", "o", "p">>, <<"x">>, <<"-", "-">> }

MaxPieces == 3

RECURSIVE Flatten(_)
Flatten(parts) == IF parts = <<>> THEN <<>> ELSE Head(parts) \o Flatten(Tail(parts))

\* s followed by blanks up to length n.
Pad(s, n) == [i \in 1..n |-> IF i <= Len(s) THEN s[i] ELSE " "]

\* The query texts handed to ExecuteQuery: short ones, one of exactly
\* maxQueryLength characters and one that is a character longer.
QueryTexts ==
    { Flatten(parts) : parts \in SeqsUpTo(QueryPieces, MaxPieces) }
    \cup { Pad(Select1, maxQueryLength), Pad(Select1, maxQueryLength + 1) }

Shop == <<"s", "h", "o", "p">>

\* The backquote character, which a string of this language cannot hold.
Backquote == "backquote"

\* fmt.Sprintf of line 1092.
UseStatement(database) ==
    <<"U", "S", "E", " ", Backquote>> \o database \o <<Backquote>>

DbCall(method, text) == [method |-> method, text |-> text]

GateInit ==
    /\ FilterIdle
    /\ PlanIdle
    /\ ExecIdle
    /\ BuildIdle
    /\ FormatIdle
    /\ QueryIdle
    /\ LedgerIdle
    /\ execQuery \in QueryTexts
    /\ execDatabase \in {<<>>, Shop}
    /\ execPc = "called"
    /\ validateErr = ""
    /\ dbCalls = <<>>

\* Lines 1077-1087: a query Validate rejects is logged and returned.
ExecValidate ==
    /\ execPc = "called"
    /\ validateErr' = Validate(execQuery)
    /\ execPc' = IF Validate(execQuery) # "" THEN "returned" ELSE "validated"
    /\ UNCHANGED <<execQuery, execDatabase, dbCalls>>
    /\ UNCHANGED <<filterVars, planVars, execVars, buildVars, formatVars, queryVars, ledgerVars>>

\* Lines 1089-1095: USE of the given database, which may fail.
ExecUse ==
    /\ execPc = "validated"
    /\ IF execDatabase # <<>>
       THEN /\ dbCalls' = Append(dbCalls, DbCall("ExecContext", UseStatement(execDatabase)))
            /\ execPc' \in {"switched", "returned"}
       ELSE /\ dbCalls' = dbCalls
            /\ execPc' = "switched"
    /\ UNCHANGED <<execQuery, execDatabase, validateErr>>
    /\ UNCHANGED <<filterVars, planVars, execVars, buildVars, formatVars, queryVars, ledgerVars>>

\* Lines 1097-1192: the query text goes to the database and the call returns.
ExecQueryContext ==
    /\ execPc = "switched"
    /\ dbCalls' = Append(dbCalls, DbCall("QueryContext", execQuery))
    /\ execPc' = "returned"
    /\ UNCHANGED <<execQuery, execDatabase, validateErr>>
    /\ UNCHANGED <<filterVars, planVars, execVars, buildVars, formatVars, queryVars, ledgerVars>>

GateNext == ExecValidate \/ ExecUse \/ ExecQueryContext

SpecGate == GateInit /\ [][GateNext]_vars

-----------------------------------------------------------------------------
(* Claims about the read-only gate.                                         *)

\* The words of a text: its maximal runs of word characters, as <<from, to>>.
WordRuns(s) ==
    { <<i, CHOOSE j \in i..Len(s) :
                /\ j = Len(s) \/ ~IsWordChar(s[j + 1])
                /\ \A k \in i..j : IsWordChar(s[k])>> :
        i \in { i \in 1..Len(s) : IsWordChar(s[i]) /\ (i = 1 \/ ~IsWordChar(s[i - 1])) } }

WordAt(s, run) == ToUpper(SubSeq(s, run[1], run[2]))

\* No word of s is a blocked keyword, and no word INTO is followed, after
\* white space only, by the word OUTFILE.
NoBlockedKeyword(s) ==
    /\ \A run \in WordRuns(s) : WordAt(s, run) \notin BlockedWords
    /\ \A r1, r2 \in WordRuns(s) :
          ~ /\ WordAt(s, r1) = <<"I", "N", "T", "O">>
            /\ WordAt(s, r2) = <<"O", "U", "T", "F", "I", "L", "E">>
            /\ r1[2] + 1 < r2[1]
            /\ \A k \in (r1[2] + 1)..(r2[1] - 1) : IsSpace(s[k])

NoCommentMarker(s) ==
    \A i \in 1..Len(s) :
        /\ s[i] # "#"
        /\ i < Len(s) => <<s[i], s[i + 1]>> \notin {<<"-", "-">>, <<"/", "*">>, <<"*", "/">>}

\* After trimming, and without regard to case, s begins with an allowed
\* operation.
BeginsWithAllowed(s) ==
    LET t == TrimSpace(s)
    IN  \E n \in 1..Len(allowedOperations) :
            /\ Len(allowedOperations[n]) <= Len(t)
            /\ \A k \in 1..Len(allowedOperations[n]) :
                  ToUpperChar(t[k]) = allowedOperations[n][k]

\* What the gate guarantees whatever the reading of the semicolon rule.
GateHolds(semicolonRule(_)) ==
    /\ dbCalls # <<>> => (execPc # "called" /\ validateErr = "")
    /\ validateErr # "" => dbCalls = <<>>
    /\ \A i \in 1..Len(dbCalls) :
          dbCalls[i].method = "QueryContext" => dbCalls[i].text = execQuery
    /\ (execPc \notin {"idle", "called"} /\ validateErr = "") =>
          /\ Len(execQuery) \in 1..maxQueryLength
          /\ BeginsWithAllowed(execQuery)
          /\ NoBlockedKeyword(execQuery)
          /\ NoCommentMarker(execQuery)
          /\ Count(execQuery, ";") <= 1
          /\ Count(execQuery, ";") = 1 => semicolonRule(execQuery)

SemicolonIsLast(s) == s[Len(s)] = ";"

SemicolonEndsTrimmed(s) ==
    LET t == TrimSpace(s) IN t # <<>> /\ t[Len(t)] = ";"

\* C21 as stated: a query text reaches the database only after Validate
\* accepted it, a rejected query causes no database call, and an accepted
\* text is non-empty, at most 10000 characters long, begins (trimmed,
\* case-insensitively) with an allowed operation, holds no blocked keyword
\* or comment marker, and holds at most one semicolon, its last character.
C21_GateSemicolonLastCharacter == GateHolds(SemicolonIsLast)

\* C21 amended: the same, with the one semicolon being the last character
\* of the text once its surrounding white space is trimmed.
C21_ReadOnlyGate == GateHolds(SemicolonEndsTrimmed)

\* An accepted query that starts with a blank, in lower case, and ends with
\* its one semicolon has been sent to the database.
C21_Witness ==
    /\ execPc = "returned"
    /\ dbCalls # <<>>
    /\ dbCalls[Len(dbCalls)].method = "QueryContext"
    /\ execQuery[1] = " "
    /\ Count(execQuery, ";") = 1

-----------------------------------------------------------------------------
(* Claims about the resolver's output as a list.                            *)

Occurrences(ps, plan) == Cardinality({ i \in 1..Len(ps) : ps[i] = plan })

\* C22: sortByDependencies returns a reordering of its input: every plan of
\* the collected list (whose database and table pairs are distinct) appears
\* exactly once in the returned list and nothing else does.
C22_SortIsReordering ==
    (planPc = "ordered" /\ ~dataNoForeignKeyCheck) =>
        /\ Len(sortedPlans) = Len(allPlans)
        /\ \A i \in 1..Len(allPlans) : Occurrences(sortedPlans, allPlans[i]) = 1
        /\ \A j \in 1..Len(sortedPlans) : Occurrences(allPlans, sortedPlans[j]) = 1

-----------------------------------------------------------------------------
(* Claims about runs that are killed.                                       *)

\* The complete block of plan number i: its USE statement and the insert
\* statements of all the rows its scan returns.
CompleteBlock(i) ==
    LET plan == CountedPlan(plans[i], tableRows[i])
    IN  <<UseStmt(plan)>>
        \o InsertStatements(plan.TableName, RowsReturned(plan, tableRows[i]),
                            dataBatchSize, TRUE)

\* C23: across fresh and resumed runs on one output prefix, each possibly
\* killed, a table that a resumed run skips because its key is in the ledger
\* has its complete block in the artifact.
C23_SkippedTableHasBlock ==
    \A i \in 1..Len(hist.outcome) :
        (dataResume # "" /\ hist.outcome[i] = "skipped") =>
            Contains(outputFile.content, CompleteBlock(i))

-----------------------------------------------------------------------------
(* Claims about the order of the table blocks.                              *)

\* The positions of the artifact that hold an insert statement of a table.
InsertPositions(table) ==
    { n \in 1..Len(outputFile.content) :
         outputFile.content[n].kind = "insert" /\ outputFile.content[n].table = table }

\* C24: for a table T and a table D among T's dependencies, every insert
\* statement of D in the artifact precedes every insert statement of T, also
\* after resumed runs that append to the artifact.
C24_BlocksInDependencyOrder ==
    \A t \in 1..Len(plans) :
        \A k \in 1..Len(plans[t].Dependencies) :
            \A p \in InsertPositions(plans[t].TableName) :
                \A q \in InsertPositions(plans[t].Dependencies[k]) : q < p

-----------------------------------------------------------------------------
(* Claims about the skip step.                                              *)

\* The executor is at a plan whose key "database.table" is in the ledger it
\* loaded when it resumed.
AtCompletedPlan ==
    /\ pc = "loop"
    /\ idx <= Len(plans)
    /\ dataResume # ""
    /\ (plans[idx].DatabaseName \o "." \o plans[idx].TableName) \in completedTables

\* C25: the step taken at a plan whose key is in the loaded ledger issues
\* no count and no scan, leaves the artifact, the ledger and both counters
\* as they are, and moves on to the next plan.
C25_SkipChangesNothing ==
    [][AtCompletedPlan =>
          /\ hist'.attempted = hist.attempted
          /\ hist'.scanFault = hist.scanFault
          /\ outputFile' = outputFile
          /\ progressFile' = progressFile
          /\ successCount' = successCount
          /\ failCount' = failCount
          /\ idx' = idx + 1
          /\ pc' = "loop"]_vars

\* A resumed run has skipped its first table and attempted its second.
C25_Witness ==
    /\ dataResume # ""
    /\ Len(hist.outcome) = 2
    /\ hist.outcome[1] = "skipped"
    /\ hist.attempted = <<2>>

-----------------------------------------------------------------------------
(* Claims about a failed count.                                             *)

\* C26: a table whose row count could not be fetched is still extracted (it
\* fails only if its extraction fails) and the run goes on; when the table
\* is sampled, by a percentage or a fixed cap, the run writes no row of it.
C26_FailedCountYieldsNoRows ==
    \A k \in 1..Len(hist.outcome) :
        (Finished(k) /\ k \in hist.countFault) =>
            /\ pc # "error"
            /\ hist.outcome[k] = "failed" => hist.scanFault[k] \in {"query", "scan"}
            /\ plans[k].SampleSize # 0 =>
                  RowsFor(WrittenThisRun, plans[k].TableName) = 0

-----------------------------------------------------------------------------
(* Claims about the ledger update.                                          *)

\* C27: whatever becomes of a call of saveExtractionProgress, also when the
\* process is killed inside it, the ledger read afterwards holds the keys it
\* held before the call, with or without the new key.
C27_SaveCrashConsistent ==
    [][pc = "extracted" =>
          LET before == loadExtractionProgress(progressFile, TRUE)
              after == loadExtractionProgress(progressFile', TRUE)
          IN  after \in {before, before \cup {TableKey(cur)}}]_vars

-----------------------------------------------------------------------------
(* saveExtractionProgress on any ledger file: one left by earlier runs or   *)
(* edited by hand, with blank lines, repeated keys and keys out of order.   *)

LedgerLines == {"db1.a", "db1.b", "", " "}

MaxLines == 3
MaxSaves == 2

LedgerFiles ==
    {AbsentFile}
    \cup { [exists |-> TRUE, content |-> lines] : lines \in SeqsUpTo(LedgerLines, MaxLines) }

LedgerInit ==
    /\ FilterIdle
    /\ PlanIdle
    /\ BuildIdle
    /\ FormatIdle
    /\ QueryIdle
    /\ GateIdle
    /\ plans = <<>>
    /\ tableRows = <<>>
    /\ dataBatchSize = 1
    /\ progressFile \in LedgerFiles
    /\ outputFile = AbsentFile
    /\ dataResume = ""
    /\ pc = "idle"
    /\ idx = 1
    /\ completedTables = {}
    /\ successCount = 0
    /\ failCount = 0
    /\ cur = NoPlan
    /\ runs = 0
    /\ faults = 0
    /\ hist = NoHistory
    /\ saveKey = ""
    /\ saveLoaded = {}
    /\ saveWritten = FALSE
    /\ saveCalls = 0

\* Lines 624-640: one call of saveExtractionProgress(tableKey).
SaveKey ==
    /\ saveCalls < MaxSaves
    /\ \E tableKey \in {"db1.a", "db1.b", "db1.c"}, readOk \in BOOLEAN, writeOk \in BOOLEAN :
          /\ ~readOk => progressFile.exists
          /\ progressFile' = saveExtractionProgress(progressFile, tableKey, readOk, writeOk)
          /\ saveKey' = tableKey
          /\ saveLoaded' = loadExtractionProgress(progressFile, readOk)
          /\ saveWritten' = writeOk
    /\ saveCalls' = saveCalls + 1
    /\ UNCHANGED <<plans, tableRows, dataBatchSize, outputFile, dataResume, pc, idx,
                   completedTables, successCount, failCount, cur, runs, faults, hist>>
    /\ UNCHANGED <<filterVars, planVars, buildVars, formatVars, queryVars, gateVars>>

LedgerNext == SaveKey

SpecLedger == LedgerInit /\ [][LedgerNext]_vars

-----------------------------------------------------------------------------
(* Claims about saveExtractionProgress as a function of the ledger file.    *)

\* The place of a key in the byte order of sort.Strings.
KeyRank(key) == CHOOSE n \in 1..Len(KeyOrder) : KeyOrder[n] = key

\* One key per line, in sorted order, no key twice, no blank line.
SortedKeyLines(lines) ==
    /\ \A n \in 1..Len(lines) : \E m \in 1..Len(KeyOrder) : KeyOrder[m] = lines[n]
    /\ \A n \in 1..(Len(lines) - 1) : KeyRank(lines[n]) < KeyRank(lines[n + 1])

\* C28: a call saveExtractionProgress(k) whose write succeeds leaves a
\* ledger that holds, one per line, sorted and without duplicates, exactly
\* the keys load returned inside the call plus k; load returns no blank
\* line; and a call that follows a written one with a key load already
\* returned leaves the file content as it is.
C28_ReadModifyWrite ==
    [][(saveCalls' = saveCalls + 1 /\ saveWritten') =>
          /\ "" \notin saveLoaded' /\ " " \notin saveLoaded'
          /\ progressFile'.exists
          /\ SortedKeyLines(progressFile'.content)
          /\ { progressFile'.content[n] : n \in 1..Len(progressFile'.content) }
                = saveLoaded' \cup {saveKey'}
          /\ (saveCalls >= 1 /\ saveWritten /\ saveKey' \in saveLoaded')
                => progressFile'.content = progressFile.content]_vars

\* The second of two written calls found its key among the two keys load
\* returned.
C28_Witness ==
    /\ saveCalls = 2
    /\ saveWritten
    /\ saveKey \in saveLoaded
    /\ Cardinality(saveLoaded) = 2

-----------------------------------------------------------------------------
(* Claims about the ledger keys.                                            *)

\* C29: plans with different database and table pairs have different ledger
\* keys, so a resumed run skips a table only when that table itself was
\* marked complete.
C29_KeysInjective ==
    \A j \in 1..Len(hist.outcome) :
        hist.outcome[j] = "skipped" =>
            /\ j \in hist.marked
            /\ \A i \in 1..Len(plans) : i # j => TableKey(plans[i]) # TableKey(plans[j])

-----------------------------------------------------------------------------
(* Claims about the summary.                                                *)

\* C30: at the end of executeExtractionPlan, whatever the plan list and the
\* ledger it loaded, the summary's successful and failed counts together do
\* not exceed the number of tables of the plan, and the failed count is the
\* number of tables whose extraction returned an error in this run.
C30_SummaryAccounting ==
    pc = "done" =>
        /\ successCount + failCount <= Len(plans)
        /\ failCount = Cardinality({ k \in 1..Len(plans) : hist.outcome[k] = "failed" })

====
